---- MODULE Spec2Model ----
(***************************************************************************)
(* Vortexis backend: single-use, time-bound tokens (OTP, password-reset    *)
(* token, team invitation), team membership and conversation participant   *)
(* sync, modelled as state machines over the persisted tables.             *)
(*                                                                         *)
(* Time is measured in minutes.  The clock only moves to instants at which *)
(* the validity of some stored token can change (an expiry instant or the  *)
(* minute after it), which is enough to observe every comparison the code  *)
(* makes between timezone.now() and a stored timestamp.                    *)
(***************************************************************************)
EXTENDS Integers, Sequences, FiniteSets, TLC

VARIABLES
    now,            \* timezone.now(), in minutes
    otps,           \* table accounts_otp, in insertion order
    resetTokens,    \* table accounts_passwordresettoken, in insertion order
    last,           \* the last request handled and its outcome (observer)
    hackathon,      \* the hackathon's [min_team_size, max_team_size]
    participants,   \* table hackathon_hackathonparticipant, by user
    teams,          \* table team_team with its members relation, by id
    nextTeamId,     \* next primary key of team_team
    invitations,    \* table team_teaminvitation
    conversations,  \* table communications_conversation (team conversations)
    convParticipants, \* table communications_conversationparticipant, in insertion order
    joinRequests,   \* table team_teamjoinrequest
    panel,          \* the hackathon's judges and its organization's organizer
                    \* and moderators
    inflight        \* the requests being handled concurrently, each with its
                    \* position in the handler and what it has read so far

accountVars == <<otps, resetTokens>>
teamVars == <<hackathon, participants, teams, nextTeamId, invitations>>
convVars == <<conversations, convParticipants, panel>>
joinVars == <<joinRequests>>
raceVars == <<inflight>>
vars == <<now, otps, resetTokens, last, hackathon, participants, teams,
          nextTeamId, invitations, conversations, convParticipants,
          joinRequests, panel, inflight>>

-----------------------------------------------------------------------------
(* Universe and bounds *)

Users == {"A", "B", "C"}
NoUser == "none"

\* users that go through the OTP / password-reset flows in the accounts model
OtpUsers == {"A", "B"}

\* random.choices(string.digits, k=6): two representative codes, so that a
\* collision between two issued codes can happen
Codes == {"111111", "222222"}
NoCode == ""

OtpTTL == 10          \* timedelta(minutes=10)
ResetTTL == 60        \* timedelta(hours=1)

MaxOtps == 3          \* rows ever inserted in accounts_otp
MaxResetTokens == 2   \* rows ever inserted in accounts_passwordresettoken
OtpSlack == 1         \* the accounts clock stops OtpSlack minutes after ...
ResetSlack == 1       \* ... the first possible expiry of the kind modelled

\* User.email (unique), and one address that belongs to no account
EmailOf == [u \in Users |-> IF u = "A" THEN "a@x.com"
                             ELSE IF u = "B" THEN "b@x.com" ELSE "c@x.com"]
NoAccountEmail == "n@x.com"
Emails == {EmailOf[u] : u \in Users} \cup {NoAccountEmail}

\* User.objects.get(email=e), NoUser standing for User.DoesNotExist
UserByEmail(e) ==
    IF \E u \in Users : EmailOf[u] = e
    THEN CHOOSE u \in Users : EmailOf[u] = e
    ELSE NoUser

\* users with a HackathonParticipant row for the hackathon; C has an account
\* but is not registered
Registered == {"A", "B"}

TeamNames == {"Rocket", "Comet"}
NoName == ""

InviteTTL == 10080    \* timedelta(days=7), in minutes

MaxTeams == 2         \* teams ever created
MaxTokens == 2        \* invitation tokens ever generated
MaxInviteList == 2    \* length of the members list posted to create a team
MaxEpochs == 1        \* the team clock stops after MaxEpochs * InviteTTL

\* (min_team_size, max_team_size) of the hackathon
SizeConfigs == {<<2, 3>>, <<3, 3>>}

TeamIds == 1..MaxTeams

\* secrets.token_urlsafe(32): a value never issued before.  The n-th token
\* generated for the invitation row (team, email) is named <<team, email, n>>,
\* so two issues never yield the same value.
NoToken == <<0, "", 0>>
NoTime == -1          \* a null DateTimeField

NoTeam == [exists |-> FALSE, name |-> NoName, organizer |-> NoUser, members |-> {}]

NoParticipant == [registered |-> FALSE, team |-> 0, looking_for_team |-> FALSE]

\* the team tables of a deployment in which no hackathon has been set up
NoTeamState ==
    /\ hackathon = [min_team_size |-> 1, max_team_size |-> 1]
    /\ participants = [u \in Users |-> NoParticipant]
    /\ teams = [t \in TeamIds |-> NoTeam]
    /\ nextTeamId = 1
    /\ invitations = {}

\* a hackathon without judges whose organization has neither organizer nor
\* moderators
NoPanel == [judges |-> {}, organizer |-> NoUser, moderators |-> {}]

\* no conversation opened yet, no join request made, no request in flight
NoConvState ==
    /\ conversations = {} /\ convParticipants = <<>>
    /\ panel = NoPanel
    /\ joinRequests = {}
    /\ inflight = <<>>

-----------------------------------------------------------------------------
(* Observer: the last request handled and its outcome ("ok", the value    *)
(* returned, or the class of the exception raised).  prev is the outcome   *)
(* of the request handled immediately before when that was the same        *)
(* operation on the same subject, and "-" otherwise.  The team handlers    *)
(* record their arguments (user, team, email) only for a request that went *)
(* through; the token presented to accept_invitation is always recorded.   *)

NoLast ==
    [op |-> "init", user |-> NoUser, team |-> 0, email |-> "", code |-> NoCode,
     tok |-> NoToken, out |-> "-", prev |-> "-"]

Last(op, user, team, email, code, tok, out, same) ==
    [op |-> op, user |-> user, team |-> team, email |-> email, code |-> code,
     tok |-> tok, out |-> out, prev |-> IF same THEN last.out ELSE "-"]

\* a team request that went through, and one that was refused with error class c
Done(op, user, team, email, tok, same) ==
    Last(op, user, team, email, NoCode, tok, "ok", same)

Refused(op, tok, c, same) ==
    Last(op, NoUser, 0, "", NoCode, tok, c, same)

-----------------------------------------------------------------------------
(* accounts/models.py *)

OTP_is_expired(o, t) == t > o.expires_at

OTP_is_valid(o, t) == ~o.is_used /\ ~OTP_is_expired(o, t)

PasswordResetToken_is_expired(r, t) == t > r.expires_at

PasswordResetToken_is_valid(r, t) == ~r.is_used /\ ~PasswordResetToken_is_expired(r, t)

-----------------------------------------------------------------------------
(* accounts/utils.py *)

\* OTP.objects.filter(user=user, is_used=False).update(is_used=True)
InvalidateOtps(rows, u) ==
    [i \in DOMAIN rows |->
        IF rows[i].user = u /\ ~rows[i].is_used
        THEN [rows[i] EXCEPT !.is_used = TRUE]
        ELSE rows[i]]

NewOtp(u, code) ==
    [user |-> u, code |-> code, created_at |-> now,
     expires_at |-> now + OtpTTL, is_used |-> FALSE]

generate_otp_NoInvalidate(u) ==
    /\ Len(otps) < MaxOtps
    /\ \E code \in Codes :
        /\ otps' = Append(otps, NewOtp(u, code))
        /\ last' = Last("generate_otp", u, 0, "", code, NoToken, "ok", FALSE)
    /\ UNCHANGED <<now, resetTokens, teamVars, convVars, joinVars, raceVars>>

generate_otp(u) ==
    /\ Len(otps) < MaxOtps
    /\ \E code \in Codes :
        /\ otps' = Append(InvalidateOtps(otps, u), NewOtp(u, code))
        /\ last' = Last("generate_otp", u, 0, "", code, NoToken, "ok", FALSE)
    /\ UNCHANGED <<now, resetTokens, teamVars, convVars, joinVars, raceVars>>

\* OTP.objects.filter(user=, code=, is_used=False).order_by('-created_at').first()
\* Rows are kept in insertion order and created_at never decreases, so the
\* most recent matching row is the one with the largest index.
OtpMatches(rows, u, code) ==
    {i \in DOMAIN rows : rows[i].user = u /\ rows[i].code = code /\ ~rows[i].is_used}

OtpFirst(rows, u, code) ==
    IF OtpMatches(rows, u, code) = {} THEN 0
    ELSE CHOOSE i \in OtpMatches(rows, u, code) :
            \A j \in OtpMatches(rows, u, code) : j <= i

\* the value verify_otp returns, as a string
verify_otp_result(rows, u, code, t) ==
    IF u = NoUser \/ code = NoCode THEN "False"
    ELSE IF OtpFirst(rows, u, code) = 0 THEN "False"
    ELSE IF OTP_is_expired(rows[OtpFirst(rows, u, code)], t) THEN "False"
    ELSE "True"

verify_otp(u, code) ==
    /\ otps' = IF verify_otp_result(otps, u, code, now) = "True"
               THEN [otps EXCEPT ![OtpFirst(otps, u, code)].is_used = TRUE]
               ELSE otps
    /\ last' = Last("verify_otp", u, 0, "", code, NoToken,
                    verify_otp_result(otps, u, code, now),
                    last.op = "verify_otp" /\ last.user = u /\ last.code = code)
    /\ UNCHANGED <<now, resetTokens, teamVars, convVars, joinVars, raceVars>>

\* The clock moves to the next instant at which some OTP's validity can change.
OtpInstants == {otps[i].expires_at : i \in DOMAIN otps}
                 \cup {otps[i].expires_at + 1 : i \in DOMAIN otps}

TickOtp ==
    /\ \E t \in OtpInstants :
        /\ t > now
        /\ t <= OtpTTL + OtpSlack
        /\ now' = t
    /\ last' = Last("tick", NoUser, 0, "", NoCode, NoToken, "-", FALSE)
    /\ UNCHANGED <<otps, resetTokens, teamVars, convVars, joinVars, raceVars>>

InitOtp ==
    /\ now = 0
    /\ otps = <<>>
    /\ resetTokens = <<>>
    /\ last = NoLast
    /\ NoTeamState
    /\ NoConvState

NextOtp ==
    \/ \E u \in OtpUsers : generate_otp(u)
    \/ \E u \in OtpUsers \cup {NoUser}, code \in Codes \cup {NoCode} : verify_otp(u, code)
    \/ TickOtp

SpecOtp == InitOtp /\ [][NextOtp]_vars

-----------------------------------------------------------------------------
-----------------------------------------------------------------------------
(* Password-reset tokens: PasswordResetToken.save and                      *)
(* ResetPasswordSerializer.validate                                        *)

\* PasswordResetToken.save on a new row: the token value is the row number
NewResetToken(u) ==
    [user |-> u, token |-> Len(resetTokens) + 1, is_used |-> FALSE,
     expires_at |-> now + ResetTTL]

create_reset_token(u) ==
    /\ Len(resetTokens) < MaxResetTokens
    /\ resetTokens' = Append(resetTokens, NewResetToken(u))
    /\ last' = Last("create_reset_token", u, 0, "", NoCode, NoToken, "ok", FALSE)
    /\ UNCHANGED <<now, otps, teamVars, convVars, joinVars, raceVars>>

\* ResetPasswordSerializer.validate, the passwords matching
ResetPassword_validate_outcome(tok) ==
    IF tok \notin DOMAIN resetTokens THEN <<"ValidationError", "invalid_token">>
    ELSE IF ~PasswordResetToken_is_valid(resetTokens[tok], now)
        THEN <<"ValidationError", "invalid_or_expired">>
    ELSE <<"ok", "-">>

ResetPassword_validate(tok) ==
    /\ last' = Last("reset_password_validate", NoUser, 0, "", NoCode, NoToken,
                    ResetPassword_validate_outcome(tok)[1], FALSE)
    /\ UNCHANGED <<now, accountVars, teamVars, convVars, joinVars, raceVars>>

ResetInstants == {resetTokens[i].expires_at : i \in DOMAIN resetTokens}
                   \cup {resetTokens[i].expires_at + 1 : i \in DOMAIN resetTokens}

TickReset ==
    /\ \E t \in ResetInstants :
        /\ t > now
        /\ t <= ResetTTL + ResetSlack
        /\ now' = t
    /\ last' = Last("tick", NoUser, 0, "", NoCode, NoToken, "-", FALSE)
    /\ UNCHANGED <<accountVars, teamVars, convVars, joinVars, raceVars>>

NextReset ==
    \/ \E u \in OtpUsers : create_reset_token(u)
    \/ \E tok \in 0..MaxResetTokens : ResetPassword_validate(tok)
    \/ TickReset

SpecReset == InitOtp /\ [][NextReset]_vars

\* C1: after any sequence of generate_otp and verify_otp calls executed one
\* after another, every user has at most one OTP row with is_used = FALSE.
UnusedOtps(u) == {i \in DOMAIN otps : otps[i].user = u /\ ~otps[i].is_used}

AtMostOneActiveOtp == \A u \in OtpUsers : Cardinality(UnusedOtps(u)) <= 1

\* a re-issue has invalidated an earlier OTP of the same user
AtMostOneActiveOtpWitness ==
    /\ last.op = "generate_otp"
    /\ Cardinality(UnusedOtps(last.user)) = 1
    /\ \E i \in DOMAIN otps : otps[i].user = last.user /\ otps[i].is_used


-----------------------------------------------------------------------------
(* hackathon/models.py (HackathonParticipant), as far as the team code     *)
(* uses it                                                                 *)

\* HackathonParticipant.objects.filter(hackathon=, user=).exists()
IsRegistered(u) == participants[u].registered

\* HackathonParticipant.has_team
has_team(u) == participants[u].team # 0

\* participant.team = team; participant.looking_for_team = False; save()
\* inside try/except HackathonParticipant.DoesNotExist
JoinParticipant(ps, u, t) ==
    IF ps[u].registered
    THEN [ps EXCEPT ![u].team = t, ![u].looking_for_team = FALSE]
    ELSE ps

ResetParticipant_TeamOnly(ps, u) ==
    IF ps[u].registered
    THEN [ps EXCEPT ![u].team = 0]
    ELSE ps

\* participant.team = None; participant.looking_for_team = True; save()
ResetParticipant(ps, u) ==
    IF ps[u].registered
    THEN [ps EXCEPT ![u].team = 0, ![u].looking_for_team = TRUE]
    ELSE ps

-----------------------------------------------------------------------------
(* team/models.py *)

MinSize == hackathon.min_team_size
MaxSize == hackathon.max_team_size

MemberCount(t) == Cardinality(teams[t].members)

\* TeamInvitation.is_valid
TeamInvitation_is_valid_IgnoreAccepted(inv, t) ==
    t < inv.created_at + InviteTTL

TeamInvitation_is_valid(inv, t) ==
    IF inv.is_accepted THEN FALSE
    ELSE t < inv.created_at + InviteTTL

\* TeamInvitation.objects.create(team=, email=, invited_by=), token set by save()
NewInvitation(t, e, by) ==
    [team |-> t, email |-> e, invited_by |-> by, token |-> <<t, e, 1>>,
     is_accepted |-> FALSE, created_at |-> now, accepted_at |-> NoTime]

RECURSIVE SumIssued(_)
SumIssued(S) ==
    IF S = {} THEN 0
    ELSE LET x == CHOOSE y \in S : TRUE
         IN  x.token[3] + SumIssued(S \ {x})

\* number of tokens generated so far
TokensIssued == SumIssued(invitations)

InvitationsOf(t) == {inv \in invitations : inv.team = t}

PendingCount_Ignored(t) == 0

\* TeamInvitation.objects.filter(team=team, is_accepted=False).count()
PendingCount(t) == Cardinality({inv \in InvitationsOf(t) : ~inv.is_accepted})

accept_error_NoEmailCheck(inv, u, t) ==
    IF ~TeamInvitation_is_valid(inv, t) THEN "expired_or_accepted"
    ELSE "ok"

\* TeamInvitation.accept(user), called with request.user: the exception it
\* raises, or "ok"
accept_error(inv, u, t) ==
    IF ~TeamInvitation_is_valid(inv, t) THEN "expired_or_accepted"
    ELSE IF EmailOf[u] # inv.email THEN "email_mismatch"
    ELSE "ok"

-----------------------------------------------------------------------------
(* team/serializers.py and team/views.py: one action per request handler.  *)
(* Each *_outcome operator gives <<error class, reason>> in the order the   *)
(* handler checks, <<"ok", "-">> when the request goes through.             *)

Ok == <<"ok", "-">>

RECURSIVE RemoveFirst(_, _)
\* list.remove(x): drops the first occurrence only
RemoveFirst(s, x) ==
    IF s = <<>> THEN <<>>
    ELSE IF Head(s) = x THEN Tail(s)
    ELSE <<Head(s)>> \o RemoveFirst(Tail(s), x)

Range(s) == {s[i] : i \in DOMAIN s}

\* member_emails after "if user.email in member_emails: member_emails.remove(...)"
MemberEmails(u, emails) == RemoveFirst(emails, EmailOf[u])

\* The members lists posted to create a team.  validate and create depend on
\* the posted list only through the emails it holds and how often (remove
\* drops one occurrence, the duplicate test counts, one invitation is created
\* per remaining entry), so one list per multiset of emails is enumerated:
\* the one sorted by EmailRank.
EmailRank == [e \in Emails |->
    IF e = "a@x.com" THEN 1 ELSE IF e = "b@x.com" THEN 2
    ELSE IF e = "c@x.com" THEN 3 ELSE 4]

InviteLists ==
    {s \in UNION {[1..n -> Emails] : n \in 0..MaxInviteList} :
        \A i \in 1..(Len(s) - 1) : EmailRank[s[i]] <= EmailRank[s[i + 1]]}

\* CreateTeamSerializer.validate, then the insert of CreateTeamSerializer.create
CreateTeam_outcome(u, name, emails) ==
    LET ms == MemberEmails(u, emails)
        size == Len(ms) + 1
    IN  IF name = NoName THEN <<"ValidationError", "name_required">>
        ELSE IF \E t \in TeamIds : teams[t].exists /\ teams[t].organizer = u
            THEN <<"ValidationError", "already_has_team">>
        ELSE IF ~IsRegistered(u) THEN <<"ValidationError", "not_registered">>
        ELSE IF Len(ms) # Cardinality(Range(ms))
            THEN <<"ValidationError", "duplicate_emails">>
        ELSE IF \E i \in DOMAIN ms :
                    UserByEmail(ms[i]) # NoUser /\ ~IsRegistered(UserByEmail(ms[i]))
            THEN <<"ValidationError", "member_not_registered">>
        ELSE IF \E i \in DOMAIN ms :
                    UserByEmail(ms[i]) # NoUser /\ has_team(UserByEmail(ms[i]))
            THEN <<"ValidationError", "member_has_team">>
        ELSE IF size < MinSize \/ size > MaxSize
            THEN <<"ValidationError", "team_size">>
        ELSE IF \E t \in TeamIds : teams[t].exists /\ teams[t].name = name
            THEN <<"IntegrityError", "name_hackathon_unique">>
        ELSE Ok

\* team.members.set([user]): only the creator is a member at creation
InitialMembers_WithInvitees(u, ms) ==
    {u} \cup ({UserByEmail(ms[i]) : i \in DOMAIN ms} \ {NoUser})

InitialMembers(u, ms) == {u}

CreateTeam(u, name, emails) ==
    LET out == CreateTeam_outcome(u, name, emails)
        ms == MemberEmails(u, emails)
        t == nextTeamId
    IN  /\ out = Ok => (nextTeamId <= MaxTeams /\ TokensIssued + Len(ms) <= MaxTokens)
        /\ IF out = Ok
           THEN /\ teams' = [teams EXCEPT ![t] =
                        [exists |-> TRUE, name |-> name, organizer |-> u,
                         members |-> InitialMembers(u, ms)]]
                /\ nextTeamId' = nextTeamId + 1
                /\ participants' = JoinParticipant(participants, u, t)
                /\ invitations' = invitations \cup
                        {NewInvitation(t, ms[i], u) : i \in DOMAIN ms}
           ELSE UNCHANGED <<teams, nextTeamId, participants, invitations>>
        /\ last' = IF out = Ok
                   THEN Done("create_team", u, t, "", NoToken, FALSE)
                   ELSE Refused("create_team", NoToken, out[1], FALSE)
        /\ UNCHANGED <<now, accountVars, convVars, joinVars, raceVars, hackathon>>

\* TeamInvitation.objects.filter(team=, email=, is_accepted=False).first()
PendingInvitation(t, e) ==
    {inv \in InvitationsOf(t) : inv.email = e /\ ~inv.is_accepted}

AddMember_outcome_NoDuplicateCheck(t, u, e) ==
    IF ~(teams[t].exists /\ u \in teams[t].members) THEN <<"NotFound", "team">>
    ELSE IF teams[t].organizer # u THEN <<"AuthenticationFailed", "not_organizer">>
    ELSE IF UserByEmail(e) # NoUser /\ UserByEmail(e) \in teams[t].members
        THEN <<"ValidationError", "already_member">>
    ELSE IF UserByEmail(e) # NoUser /\ IsRegistered(UserByEmail(e))
                /\ has_team(UserByEmail(e))
        THEN <<"ValidationError", "has_team">>
    ELSE IF MemberCount(t) + PendingCount(t) >= MaxSize
        THEN <<"ValidationError", "team_full">>
    ELSE Ok

\* get_object(), then AddMemberSerializer.validate_member_email
AddMember_outcome(t, u, e) ==
    IF ~(teams[t].exists /\ u \in teams[t].members) THEN <<"NotFound", "team">>
    ELSE IF teams[t].organizer # u THEN <<"AuthenticationFailed", "not_organizer">>
    ELSE IF \E inv \in PendingInvitation(t, e) : TeamInvitation_is_valid(inv, now)
        THEN <<"ValidationError", "already_sent">>
    ELSE IF UserByEmail(e) # NoUser /\ UserByEmail(e) \in teams[t].members
        THEN <<"ValidationError", "already_member">>
    ELSE IF UserByEmail(e) # NoUser /\ IsRegistered(UserByEmail(e))
                /\ has_team(UserByEmail(e))
        THEN <<"ValidationError", "has_team">>
    ELSE IF MemberCount(t) + PendingCount(t) >= MaxSize
        THEN <<"ValidationError", "team_full">>
    ELSE Ok

AddMember_save_AlwaysCreates(t, u, e) ==
    invitations \cup
        {[NewInvitation(t, e, u) EXCEPT
            !.token = <<t, e, 1 + Cardinality(InvitationsOf(t))>>]}

\* AddMemberSerializer.save: get_or_create on (team, email), then the token
\* rotation of a row that existed and is no longer valid
AddMember_save(t, u, e) ==
    IF \E inv \in InvitationsOf(t) : inv.email = e
    THEN {IF inv.team = t /\ inv.email = e /\ ~TeamInvitation_is_valid(inv, now)
          THEN [inv EXCEPT !.token = <<t, e, inv.token[3] + 1>>,
                           !.created_at = now, !.is_accepted = FALSE]
          ELSE inv : inv \in invitations}
    ELSE invitations \cup {NewInvitation(t, e, u)}

AddMember(t, u, e) ==
    LET out == AddMember_outcome(t, u, e)
    IN  /\ out = Ok => TokensIssued < MaxTokens
        /\ invitations' = IF out = Ok THEN AddMember_save(t, u, e) ELSE invitations
        /\ last' = IF out = Ok
                   THEN Done("add_member", u, t, e, NoToken, FALSE)
                   ELSE Refused("add_member", NoToken, out[1],
                                out[1] = "ValidationError" /\ last.op = "add_member"
                                    /\ last.out = "ok" /\ last.team = t
                                    /\ last.email = e)
        /\ UNCHANGED <<now, accountVars, convVars, joinVars, raceVars, hackathon, participants, teams, nextTeamId>>

InvitationByToken(tok) == {inv \in invitations : inv.token = tok}

\* token values a client can present: every value issued so far (current or
\* rotated away) and one never issued
TokenInputs ==
    UNION {{<<inv.team, inv.email, n>> : n \in 1..inv.token[3]} : inv \in invitations}
        \cup {NoToken}

\* AcceptTeamInvitationSerializer.validate_token, then save -> invitation.accept
AcceptInvitation_outcome(u, tok) ==
    IF InvitationByToken(tok) = {} THEN <<"ValidationError", "invalid_token">>
    ELSE LET inv == CHOOSE i \in InvitationByToken(tok) : TRUE
         IN  IF ~TeamInvitation_is_valid(inv, now)
                THEN <<"ValidationError", "invalid_or_expired">>
             ELSE IF accept_error(inv, u, now) # "ok"
                THEN <<"ValueError", accept_error(inv, u, now)>>
             ELSE Ok

\* self.is_accepted = True; self.accepted_at = timezone.now(); self.save()
MarkAccepted_NoTimestamp(inv) == [inv EXCEPT !.is_accepted = TRUE]

MarkAccepted(inv) == [inv EXCEPT !.is_accepted = TRUE, !.accepted_at = now]

AcceptInvitation(u, tok) ==
    LET out == AcceptInvitation_outcome(u, tok)
    IN  /\ IF out = Ok
           THEN LET inv == CHOOSE i \in InvitationByToken(tok) : TRUE
                IN  /\ teams' = [teams EXCEPT ![inv.team].members = @ \cup {u}]
                    /\ invitations' = (invitations \ {inv}) \cup {MarkAccepted(inv)}
                    /\ participants' = JoinParticipant(participants, u, inv.team)
           ELSE UNCHANGED <<teams, invitations, participants>>
        /\ last' = IF out = Ok
                   THEN Done("accept_invitation", u, tok[1], tok[2], tok, FALSE)
                   ELSE Refused("accept_invitation", tok, out[1],
                                last.op = "accept_invitation" /\ last.out = "ok"
                                    /\ last.tok = tok)
        /\ UNCHANGED <<now, accountVars, convVars, joinVars, raceVars, hackathon, nextTeamId>>

\* team.members.count() <= team.hackathon.min_team_size
BelowFloorAfterRemoval_OffByOne(t) == MemberCount(t) < MinSize

BelowFloorAfterRemoval(t) == MemberCount(t) <= MinSize

\* get_object(), then RemoveMemberSerializer.validate_member_email
RemoveMember_outcome_OrganizerRemovable(t, u, e) ==
    IF ~(teams[t].exists /\ u \in teams[t].members) THEN <<"NotFound", "team">>
    ELSE IF teams[t].organizer # u THEN <<"AuthenticationFailed", "not_organizer">>
    ELSE IF UserByEmail(e) = NoUser THEN <<"ValidationError", "no_such_user">>
    ELSE IF UserByEmail(e) \notin teams[t].members
        THEN <<"ValidationError", "not_member">>
    ELSE IF BelowFloorAfterRemoval(t) THEN <<"ValidationError", "min_size">>
    ELSE Ok

RemoveMember_outcome(t, u, e) ==
    IF ~(teams[t].exists /\ u \in teams[t].members) THEN <<"NotFound", "team">>
    ELSE IF teams[t].organizer # u THEN <<"AuthenticationFailed", "not_organizer">>
    ELSE IF UserByEmail(e) = NoUser THEN <<"ValidationError", "no_such_user">>
    ELSE IF UserByEmail(e) \notin teams[t].members
        THEN <<"ValidationError", "not_member">>
    ELSE IF UserByEmail(e) = teams[t].organizer
        THEN <<"ValidationError", "organizer">>
    ELSE IF BelowFloorAfterRemoval(t) THEN <<"ValidationError", "min_size">>
    ELSE Ok

RemoveMember(t, u, e) ==
    LET out == RemoveMember_outcome(t, u, e)
    IN  /\ IF out = Ok
           THEN /\ teams' = [teams EXCEPT ![t].members = @ \ {UserByEmail(e)}]
                /\ participants' = ResetParticipant(participants, UserByEmail(e))
           ELSE UNCHANGED <<teams, participants>>
        /\ last' = IF out = Ok
                   THEN Done("remove_member", u, t, e, NoToken, FALSE)
                   ELSE Refused("remove_member", NoToken, out[1], FALSE)
        /\ UNCHANGED <<now, accountVars, convVars, joinVars, raceVars, hackathon, nextTeamId, invitations>>

\* get_object(), then LeaveTeamSerializer.validate
LeaveTeam_outcome_NoFloor(t, u) ==
    IF ~(teams[t].exists /\ u \in teams[t].members) THEN <<"NotFound", "team">>
    ELSE IF u \notin teams[t].members THEN <<"ValidationError", "not_member">>
    ELSE IF u = teams[t].organizer THEN <<"ValidationError", "organizer">>
    ELSE Ok

LeaveTeam_outcome(t, u) ==
    IF ~(teams[t].exists /\ u \in teams[t].members) THEN <<"NotFound", "team">>
    ELSE IF u \notin teams[t].members THEN <<"ValidationError", "not_member">>
    ELSE IF u = teams[t].organizer THEN <<"ValidationError", "organizer">>
    ELSE IF BelowFloorAfterRemoval(t) THEN <<"ValidationError", "min_size">>
    ELSE Ok

LeaveTeam(t, u) ==
    LET out == LeaveTeam_outcome(t, u)
    IN  /\ IF out = Ok
           THEN /\ teams' = [teams EXCEPT ![t].members = @ \ {u}]
                /\ participants' = ResetParticipant(participants, u)
           ELSE UNCHANGED <<teams, participants>>
        /\ last' = IF out = Ok
                   THEN Done("leave_team", u, t, "", NoToken, FALSE)
                   ELSE Refused("leave_team", NoToken, out[1], FALSE)
        /\ UNCHANGED <<now, accountVars, convVars, joinVars, raceVars, hackathon, nextTeamId, invitations>>

-----------------------------------------------------------------------------
(* team/views.py: deleting a team, and the join-request handlers *)

DeleteTeam_outcome_AnyMember(t, u) ==
    IF ~(teams[t].exists /\ u \in teams[t].members) THEN <<"NotFound", "team">>
    ELSE Ok

\* get_object(), then TeamViewSet.perform_destroy
DeleteTeam_outcome(t, u) ==
    IF ~(teams[t].exists /\ u \in teams[t].members) THEN <<"NotFound", "team">>
    ELSE IF teams[t].organizer # u THEN <<"PermissionDenied", "not_organizer">>
    ELSE Ok

ResetParticipants_Skipped(ps, S) == ps

\* participant.team = None; participant.looking_for_team = True for every member
ResetParticipants(ps, S) ==
    [u \in Users |-> IF u \in S /\ ps[u].registered
                     THEN [ps[u] EXCEPT !.team = 0, !.looking_for_team = TRUE]
                     ELSE ps[u]]

\* instance.delete() cascades to the invitations and the join requests
DeleteTeam(t, u) ==
    LET out == DeleteTeam_outcome(t, u)
    IN  /\ IF out = Ok
           THEN /\ participants' = ResetParticipants(participants, teams[t].members)
                /\ teams' = [teams EXCEPT ![t] = NoTeam]
                /\ invitations' = {inv \in invitations : inv.team # t}
                /\ joinRequests' = {r \in joinRequests : r.team # t}
           ELSE UNCHANGED <<teams, participants, invitations, joinRequests>>
        /\ last' = IF out = Ok
                   THEN Done("delete_team", u, t, "", NoToken, FALSE)
                   ELSE Refused("delete_team", NoToken, out[1], FALSE)
        /\ UNCHANGED <<now, accountVars, convVars, raceVars, hackathon, nextTeamId>>

request_to_join_outcome_NoExistingRequestCheck(u, t) ==
    IF ~teams[t].exists THEN <<"NotFound", "team">>
    ELSE IF u \in teams[t].members THEN <<"BadRequest", "already_member">>
    ELSE IF \E t2 \in TeamIds : teams[t2].exists /\ u \in teams[t2].members
        THEN <<"BadRequest", "already_in_team">>
    ELSE Ok

\* TeamViewSet.request_to_join
request_to_join_outcome(u, t) ==
    IF ~teams[t].exists THEN <<"NotFound", "team">>
    ELSE IF u \in teams[t].members THEN <<"BadRequest", "already_member">>
    ELSE IF \E t2 \in TeamIds : teams[t2].exists /\ u \in teams[t2].members
        THEN <<"BadRequest", "already_in_team">>
    ELSE IF \E r \in joinRequests : r.team = t /\ r.user = u
        THEN <<"BadRequest", "already_sent">>
    ELSE Ok

NextJoinId ==
    IF joinRequests = {} THEN 1
    ELSE 1 + (CHOOSE n \in {r.id : r \in joinRequests} :
                \A r \in joinRequests : r.id <= n)

request_to_join(u, t) ==
    LET out == request_to_join_outcome(u, t)
    IN  /\ joinRequests' =
            IF out = Ok
            THEN joinRequests \cup
                    {[id |-> NextJoinId, team |-> t, user |-> u, status |-> "pending"]}
            ELSE joinRequests
        /\ last' = IF out = Ok
                   THEN Done("request_to_join", u, t, "", NoToken, FALSE)
                   ELSE Refused("request_to_join", NoToken, out[1], FALSE)
        /\ UNCHANGED <<now, accountVars, convVars, raceVars, hackathon, participants,
                       teams, nextTeamId, invitations>>

Team_creator_IsOrganizer(t) == teams[t].organizer

\* team.creator: the Team model declares name, members, organizer, hackathon,
\* created_at and updated_at, and no attribute named creator, so reading it
\* raises AttributeError
Team_creator(t) == "AttributeError"

\* TeamJoinRequest.objects.filter(team=team, [user_id=user_id,]
\*     status='pending').first(); NoUser stands for no user_id in the request
PendingRequests(t, target) ==
    {r \in joinRequests : /\ r.team = t
                          /\ (target = NoUser \/ r.user = target)
                          /\ r.status = "pending"}

FirstRequest(S) == CHOOSE r \in S : \A q \in S : r.id <= q.id

\* TeamViewSet.approve_join_request
approve_join_request_outcome(u, t, target) ==
    IF ~teams[t].exists THEN <<"NotFound", "team">>
    ELSE IF Team_creator(t) = "AttributeError" THEN <<"AttributeError", "creator">>
    ELSE IF Team_creator(t) # u THEN <<"Forbidden", "not_creator">>
    ELSE IF PendingRequests(t, target) = {} THEN <<"NotFound", "no_pending_request">>
    ELSE Ok

approve_join_request_StatusAccepted(u, t, target) ==
    LET ok == /\ teams[t].exists /\ teams[t].organizer = u
              /\ PendingRequests(t, target) # {}
    IN  /\ IF ok
           THEN LET r == FirstRequest(PendingRequests(t, target))
                IN  /\ joinRequests' = (joinRequests \ {r})
                            \cup {[r EXCEPT !.status = "accepted"]}
                    /\ teams' = [teams EXCEPT ![t].members = @ \cup {r.user}]
           ELSE UNCHANGED <<joinRequests, teams>>
        /\ last' = IF ok
                   THEN Done("approve_join_request", u, t, "", NoToken, FALSE)
                   ELSE Refused("approve_join_request", NoToken, "NotFound", FALSE)
        /\ UNCHANGED <<now, accountVars, convVars, raceVars, hackathon, participants,
                       nextTeamId, invitations>>

approve_join_request(u, t, target) ==
    LET out == approve_join_request_outcome(u, t, target)
    IN  /\ IF out = Ok
           THEN LET r == FirstRequest(PendingRequests(t, target))
                IN  /\ joinRequests' = (joinRequests \ {r})
                            \cup {[r EXCEPT !.status = "approved"]}
                    /\ teams' = [teams EXCEPT ![t].members = @ \cup {r.user}]
           ELSE UNCHANGED <<joinRequests, teams>>
        /\ last' = IF out = Ok
                   THEN Done("approve_join_request", u, t, "", NoToken, FALSE)
                   ELSE Refused("approve_join_request", NoToken, out[1], FALSE)
        /\ UNCHANGED <<now, accountVars, convVars, raceVars, hackathon, participants,
                       nextTeamId, invitations>>

\* TeamViewSet.reject_join_request
reject_join_request_outcome(u, t) ==
    IF ~teams[t].exists THEN <<"NotFound", "team">>
    ELSE IF Team_creator(t) = "AttributeError" THEN <<"AttributeError", "creator">>
    ELSE IF Team_creator(t) # u THEN <<"Forbidden", "not_creator">>
    ELSE IF PendingRequests(t, NoUser) = {} THEN <<"NotFound", "no_pending_request">>
    ELSE Ok

reject_join_request(u, t) ==
    LET out == reject_join_request_outcome(u, t)
    IN  /\ IF out = Ok
           THEN LET r == FirstRequest(PendingRequests(t, NoUser))
                IN  joinRequests' = (joinRequests \ {r})
                        \cup {[r EXCEPT !.status = "rejected"]}
           ELSE UNCHANGED joinRequests
        /\ last' = IF out = Ok
                   THEN Done("reject_join_request", u, t, "", NoToken, FALSE)
                   ELSE Refused("reject_join_request", NoToken, out[1], FALSE)
        /\ UNCHANGED <<now, accountVars, convVars, raceVars, hackathon, participants,
                       teams, nextTeamId, invitations>>

\* The clock moves to the next instant at which some invitation expires.
InviteInstants == {inv.created_at + InviteTTL : inv \in invitations}

TickTeam ==
    /\ \E t \in InviteInstants :
        /\ t > now
        /\ t <= MaxEpochs * InviteTTL
        /\ now' = t
    /\ last' = Last("tick", NoUser, 0, "", NoCode, NoToken, "-", FALSE)
    /\ UNCHANGED <<accountVars, teamVars, convVars, joinVars, raceVars>>

\* A hackathon with its size limits and its registered participants, no team
\* formed yet.
InitTeam ==
    /\ now = 0
    /\ otps = <<>>
    /\ resetTokens = <<>>
    /\ last = NoLast
    /\ \E c \in SizeConfigs :
        hackathon = [min_team_size |-> c[1], max_team_size |-> c[2]]
    /\ participants = [u \in Users |->
            [registered |-> u \in Registered, team |-> 0,
             looking_for_team |-> u \in Registered]]
    /\ teams = [t \in TeamIds |-> NoTeam]
    /\ nextTeamId = 1
    /\ invitations = {}
    /\ NoConvState

\* The requests worth telling apart: a request that is refused before its
\* email argument is looked at is issued with one email only, the refusal
\* and the state it leaves being the same for every other.
CreateInputs(u, name) ==
    IF CreateTeam_outcome(u, name, <<>>)[2]
            \in {"name_required", "already_has_team", "not_registered"}
    THEN {<<>>}
    ELSE InviteLists

AddMemberInputs(t, u) ==
    IF AddMember_outcome(t, u, NoAccountEmail)[1] \in {"NotFound", "AuthenticationFailed"}
    THEN {NoAccountEmail}
    ELSE Emails

RemoveMemberInputs(t, u) ==
    IF RemoveMember_outcome(t, u, NoAccountEmail)[1] \in {"NotFound", "AuthenticationFailed"}
    THEN {NoAccountEmail}
    ELSE Emails

NextTeam ==
    \/ \E u \in Users, name \in TeamNames \cup {NoName} :
        \E emails \in CreateInputs(u, name) : CreateTeam(u, name, emails)
    \/ \E t \in TeamIds, u \in Users :
        \E e \in AddMemberInputs(t, u) : AddMember(t, u, e)
    \/ \E u \in Users, tok \in TokenInputs : AcceptInvitation(u, tok)
    \/ \E t \in TeamIds, u \in Users :
        \E e \in RemoveMemberInputs(t, u) : RemoveMember(t, u, e)
    \/ \E t \in TeamIds, u \in Users : LeaveTeam(t, u)
    \/ TickTeam

SpecTeam == InitTeam /\ [][NextTeam]_vars


\* Teams form by creation, invitation and join request.
NextJoin ==
    \/ \E u \in Users, name \in TeamNames :
        \E emails \in CreateInputs(u, name) : CreateTeam(u, name, emails)
    \/ \E u \in Users, tok \in TokenInputs : AcceptInvitation(u, tok)
    \/ \E u \in Users, t \in TeamIds : request_to_join(u, t)
    \/ \E u \in Users, t \in TeamIds, target \in Users \cup {NoUser} :
        approve_join_request(u, t, target)
    \/ \E u \in Users, t \in TeamIds : reject_join_request(u, t)

SpecJoin == InitTeam /\ [][NextJoin]_vars

\* (min_team_size, max_team_size) of hackathons that admit a team of one
InviteSizeConfigs == {<<1, 3>>}

InitInvite ==
    /\ now = 0
    /\ otps = <<>>
    /\ resetTokens = <<>>
    /\ last = NoLast
    /\ \E c \in InviteSizeConfigs :
        hackathon = [min_team_size |-> c[1], max_team_size |-> c[2]]
    /\ participants = [u \in Users |->
            [registered |-> u \in Registered, team |-> 0,
             looking_for_team |-> u \in Registered]]
    /\ teams = [t \in TeamIds |-> NoTeam]
    /\ nextTeamId = 1
    /\ invitations = {}
    /\ NoConvState

\* Teams are created with an empty members list; invitations are then issued
\* by the organizer, accepted, left to expire and issued again.
NextInvite ==
    \/ \E u \in Users, name \in TeamNames : CreateTeam(u, name, <<>>)
    \/ \E t \in TeamIds, u \in Users :
        \E e \in AddMemberInputs(t, u) : AddMember(t, u, e)
    \/ \E u \in Users, tok \in TokenInputs : AcceptInvitation(u, tok)
    \/ \E t \in TeamIds, u \in Users :
        \E e \in RemoveMemberInputs(t, u) : RemoveMember(t, u, e)
    \/ \E t \in TeamIds, u \in Users : LeaveTeam(t, u)
    \/ TickTeam

SpecInvite == InitInvite /\ [][NextInvite]_vars

\* Teams are administered: members invited and removed, teams deleted.
NextAdmin ==
    \/ \E u \in Users, name \in TeamNames :
        \E emails \in CreateInputs(u, name) : CreateTeam(u, name, emails)
    \/ \E t \in TeamIds, u \in Users :
        \E e \in AddMemberInputs(t, u) : AddMember(t, u, e)
    \/ \E u \in Users, tok \in TokenInputs : AcceptInvitation(u, tok)
    \/ \E t \in TeamIds, u \in Users :
        \E e \in RemoveMemberInputs(t, u) : RemoveMember(t, u, e)
    \/ \E t \in TeamIds, u \in Users : DeleteTeam(t, u)

SpecAdmin == InitTeam /\ [][NextAdmin]_vars

-----------------------------------------------------------------------------
(* communications/views.py: the conversation of a team *)

\* the (conversation, user) pair that identifies a participant row
ParticipantKey(r) == <<r.conversation, r.user>>

HasParticipant(rows, r) ==
    \E i \in DOMAIN rows : ParticipantKey(rows[i]) = ParticipantKey(r)

\* team.members.all(), in primary-key order
UserOrder == <<"A", "B", "C">>

MembersInOrder(t) == SelectSeq(UserOrder, LAMBDA u : u \in teams[t].members)

\* Conversation.objects.get_or_create(type='team', team=team, defaults=...)
ConversationsOf(t) == {c \in conversations : c.team = t}

NewConversation(t, u) ==
    [id |-> Cardinality(conversations) + 1, team |-> t, created_by |-> u]

GetOrCreateConversation(t, u) ==
    IF ConversationsOf(t) = {} THEN NewConversation(t, u)
    ELSE CHOOSE c \in ConversationsOf(t) : TRUE

MemberRows_NoAdmin(conv, t) ==
    [i \in DOMAIN MembersInOrder(t) |->
        [conversation |-> conv.id, user |-> MembersInOrder(t)[i],
         is_admin |-> FALSE]]

\* the rows handed to bulk_create
MemberRows(conv, t) ==
    [i \in DOMAIN MembersInOrder(t) |->
        [conversation |-> conv.id, user |-> MembersInOrder(t)[i],
         is_admin |-> MembersInOrder(t)[i] = teams[t].organizer]]

\* ConversationParticipant.objects.bulk_create([...], ignore_conflicts=True)
bulk_create_NoIgnoreConflicts(rows, new) == rows \o new

bulk_create_ignore_conflicts(rows, new) ==
    rows \o SelectSeq(new, LAMBDA r : ~HasParticipant(rows, r))

\* ConversationParticipant.objects.get_or_create(conversation=conv,
\*     user_id=team.organizer_id, defaults={'is_admin': True})
EnsureOrganizer(rows, conv, t) ==
    LET r == [conversation |-> conv.id, user |-> teams[t].organizer,
              is_admin |-> TRUE]
    IN  IF teams[t].organizer # NoUser /\ teams[t].organizer \notin teams[t].members
                /\ ~HasParticipant(rows, r)
        THEN Append(rows, r)
        ELSE rows

create_team_conversation_outcome(u, t) ==
    IF ~teams[t].exists THEN <<"NotFound", "team">>
    ELSE IF u \notin teams[t].members /\ teams[t].organizer # u
        THEN <<"PermissionDenied", "not_authorized">>
    ELSE Ok

create_team_conversation(u, t) ==
    LET out == create_team_conversation_outcome(u, t)
        conv == GetOrCreateConversation(t, u)
    IN  /\ IF out = Ok
           THEN /\ conversations' = conversations \cup {conv}
                /\ convParticipants' =
                        EnsureOrganizer(
                            bulk_create_ignore_conflicts(convParticipants,
                                                         MemberRows(conv, t)),
                            conv, t)
                /\ UNCHANGED panel
           ELSE UNCHANGED convVars
        /\ last' = IF out = Ok
                   THEN Done("sync_team_conversation", u, t, "", NoToken,
                             last.op = "sync_team_conversation" /\ last.team = t)
                   ELSE Refused("sync_team_conversation", NoToken, out[1], FALSE)
        /\ UNCHANGED <<now, accountVars, teamVars, joinVars, raceVars>>

\* Teams form and change, through requests of their organizers and members,
\* while their conversations are synchronised.
NextConv ==
    \/ \E u \in Users, name \in TeamNames :
        \E emails \in CreateInputs(u, name) : CreateTeam(u, name, emails)
    \/ \E t \in TeamIds, e \in Emails :
        teams[t].exists /\ AddMember(t, teams[t].organizer, e)
    \/ \E u \in Users, tok \in TokenInputs \ {NoToken} : AcceptInvitation(u, tok)
    \/ \E t \in TeamIds : \E u \in teams[t].members : LeaveTeam(t, u)
    \/ \E u \in Users, t \in TeamIds : create_team_conversation(u, t)

SpecConv == InitTeam /\ [][NextConv]_vars

ParticipantsOf(c) ==
    {convParticipants[i] : i \in {j \in DOMAIN convParticipants :
                                    convParticipants[j].conversation = c}}

\* C5: calling syncTeamConversation(team) twice in succession, with no
\* membership change in between, yields the same conversation and the same
\* participant rows (is_admin included) as calling it once: the second call
\* adds no row, duplicates none and, made by a member or the organizer, does
\* not fail.
SyncIdempotent ==
    /\ [](/\ \A i, j \in DOMAIN convParticipants :
                ParticipantKey(convParticipants[i]) = ParticipantKey(convParticipants[j])
                    => i = j
          /\ \A c, d \in conversations : c.team = d.team => c = d)
    /\ [][(last.op = "sync_team_conversation" /\ last.out = "ok") =>
            \A u \in Users :
                create_team_conversation(u, last.team) =>
                    /\ UNCHANGED convVars
                    /\ (u \in teams[last.team].members \/ u = teams[last.team].organizer)
                            => last'.out = "ok"]_vars

\* the conversation of a team of two was synchronised twice in a row, the
\* second time by the member who is not the organizer
SyncIdempotentWitness ==
    /\ last.op = "sync_team_conversation" /\ last.out = "ok" /\ last.prev = "ok"
    /\ last.user # teams[last.team].organizer
    /\ \E c \in ConversationsOf(last.team) :
        /\ Cardinality(ParticipantsOf(c.id)) >= 2
        /\ \E r \in ParticipantsOf(c.id) : r.is_admin
        /\ \E r \in ParticipantsOf(c.id) : ~r.is_admin

-----------------------------------------------------------------------------
(* Properties of the team model *)

Organizer(t) == teams[t].organizer

ExistingTeams == {t \in TeamIds : teams[t].exists}

EverAccepted(t) == \E inv \in InvitationsOf(t) : inv.accepted_at # NoTime

TokenConsumed(tok) == \E inv \in invitations : inv.token = tok /\ inv.is_accepted

OtpConsumed(u, code) ==
    /\ \E i \in DOMAIN otps : otps[i].user = u /\ otps[i].code = code
    /\ \A i \in DOMAIN otps :
            (otps[i].user = u /\ otps[i].code = code) => otps[i].is_used

CreateTeamEffect ==
    [][(last'.op = "create_team" /\ last'.out = "ok") =>
       \A u \in Users, name \in TeamNames, emails \in InviteLists :
        CreateTeam(u, name, emails) =>
            LET t == nextTeamId
                rows(e) == {inv \in invitations' : inv.team = t /\ inv.email = e}
            IN  /\ teams'[t].exists
                /\ teams'[t].name = name
                /\ teams'[t].organizer = u
                /\ teams'[t].members = {u}
                /\ \A e \in Range(emails) \ {EmailOf[u]} :
                        /\ Cardinality(rows(e)) = 1
                        /\ \A inv \in rows(e) :
                                ~inv.is_accepted /\ inv.accepted_at = NoTime
                /\ \A inv \in invitations' \ invitations :
                        inv.team = t /\ inv.email \in Range(emails)
                /\ participants'[u].team = t
                /\ ~participants'[u].looking_for_team
                /\ \A v \in Users \ {u} : participants'[v] = participants[v]
                /\ \A t2 \in TeamIds \ {t} : teams'[t2] = teams[t2]]_vars

\* a team was created with two invitations, one of them to an address without
\* an account
CreateTeamEffectWitness ==
    /\ last.op = "create_team" /\ last.out = "ok"
    /\ teams[last.team].members = {last.user}
    /\ Cardinality(InvitationsOf(last.team)) = 2
    /\ \E inv \in InvitationsOf(last.team) : inv.email = NoAccountEmail
    /\ \E inv \in InvitationsOf(last.team) : UserByEmail(inv.email) # NoUser

\* C7: a successful acceptInvitation(token) by user U adds U to the team of
\* the invitation, marks the invitation accepted with accepted_at set, sets
\* U's participant record (when U has one) to that team with
\* looking_for_team = false, and changes no other team.
AcceptInvitationEffect ==
    [][(last'.op = "accept_invitation" /\ last'.out = "ok") =>
       \A u \in Users, tok \in TokenInputs :
        AcceptInvitation(u, tok) =>
            \E inv \in invitations :
                /\ inv.token = tok
                /\ teams'[inv.team].members = teams[inv.team].members \cup {u}
                /\ \E acc \in invitations' :
                        /\ acc.team = inv.team /\ acc.email = inv.email
                        /\ acc.token = tok
                        /\ acc.is_accepted
                        /\ acc.accepted_at = now
                /\ invitations' \ {a \in invitations' : a.token = tok}
                        = invitations \ {inv}
                /\ participants[u].registered =>
                        /\ participants'[u].team = inv.team
                        /\ ~participants'[u].looking_for_team
                /\ \A v \in Users \ {u} : participants'[v] = participants[v]
                /\ \A t2 \in TeamIds \ {inv.team} : teams'[t2] = teams[t2]]_vars

\* a registered user accepted an invitation while another team existed
AcceptInvitationEffectWitness ==
    /\ last.op = "accept_invitation" /\ last.out = "ok"
    /\ last.user \in teams[last.team].members
    /\ participants[last.user].registered
    /\ participants[last.user].team = last.team
    /\ \E t2 \in ExistingTeams : t2 # last.team

\* C8: removeMember and leaveTeam on a team whose member count is
\* <= min_team_size fail, with a ValidationError when the request comes from
\* a user the operation accepts requests from (the organizer for
\* removeMember, a member for leaveTeam), and leave the member sets and every
\* participant record unchanged.
FloorRejected ==
    [][last'.op \in {"remove_member", "leave_team"} =>
       \A t \in ExistingTeams : MemberCount(t) <= MinSize =>
        /\ \A u \in Users, e \in Emails :
              RemoveMember(t, u, e) =>
                /\ last'.out # "ok"
                /\ UNCHANGED <<teams, participants>>
                /\ u = Organizer(t) => last'.out = "ValidationError"
        /\ \A u \in Users :
              LeaveTeam(t, u) =>
                /\ last'.out # "ok"
                /\ UNCHANGED <<teams, participants>>
                /\ u \in teams[t].members => last'.out = "ValidationError"]_vars

\* the organizer of a team of exactly min_team_size members asked to remove
\* the other member and was refused
FloorRejectedWitness ==
    /\ last.op = "remove_member" /\ last.out = "ValidationError"
    /\ \E t \in ExistingTeams :
        /\ MemberCount(t) = MinSize
        /\ \E m \in teams[t].members :
            RemoveMember_outcome(t, Organizer(t), EmailOf[m])
                = <<"ValidationError", "min_size">>

\* C9: addMember(team, email) by the organizer while an unconsumed, unexpired
\* invitation for the same (team, email) exists fails with ValidationError and
\* leaves the invitation's token, timestamp and consumed flag unchanged.
DuplicateInvitationRejected ==
    [][last'.op = "add_member" =>
       \A t \in ExistingTeams, e \in Emails :
        (\E inv \in PendingInvitation(t, e) : now < inv.created_at + InviteTTL) =>
            \A u \in Users :
                AddMember(t, u, e) =>
                    /\ last'.out # "ok"
                    /\ invitations' = invitations
                    /\ u = Organizer(t) => last'.out = "ValidationError"]_vars

\* the organizer invited an address and, straight after, invited it again
DuplicateInvitationRejectedWitness ==
    /\ last.op = "add_member" /\ last.out = "ValidationError"
    /\ last.prev = "ok"

\* C10: for OTPs, password-reset tokens and team invitations alike, is_valid()
\* is true exactly when the token is not consumed and the current time is
\* strictly less than its expiry; a token is not valid at now = expiry.
ValidIffUnconsumedAndBeforeExpiry ==
    /\ \A i \in DOMAIN otps :
            OTP_is_valid(otps[i], now)
                <=> (~otps[i].is_used /\ now < otps[i].expires_at)
    /\ \A i \in DOMAIN resetTokens :
            PasswordResetToken_is_valid(resetTokens[i], now)
                <=> (~resetTokens[i].is_used /\ now < resetTokens[i].expires_at)
    /\ \A inv \in invitations :
            TeamInvitation_is_valid(inv, now)
                <=> (~inv.is_accepted /\ now < inv.created_at + InviteTTL)

-----------------------------------------------------------------------------
TeamsOf(u) == {t \in ExistingTeams : u \in teams[t].members}

\* C12: whatever createTeam, acceptInvitation and approve-join-request
\* operations have run, no user is a member of more than one team of the
\* hackathon.
OneTeamPerUser == \A u \in Users : Cardinality(TeamsOf(u)) <= 1

\* C13: for every user with a participant record, the record names team T
\* exactly when the user is a member of T, and looking_for_team is false
\* exactly when the user is a member of some team.
ParticipantConsistent ==
    \A u \in Users :
        participants[u].registered =>
            /\ \A t \in ExistingTeams :
                participants[u].team = t <=> u \in teams[t].members
            /\ participants[u].looking_for_team = FALSE <=> TeamsOf(u) # {}

\* C14: every team whose organizer is set has that organizer among its members.
OrganizerIsMember ==
    \A t \in ExistingTeams :
        Organizer(t) # NoUser => Organizer(t) \in teams[t].members

\* a member has just been removed from a team that keeps its organizer
OrganizerIsMemberWitness ==
    /\ last.op \in {"remove_member", "leave_team"} /\ last.out = "ok"
    /\ teams[last.team].exists
    /\ Organizer(last.team) \in teams[last.team].members
    /\ last.user \notin teams[last.team].members

InvitationRows(t, e) == {inv \in invitations : inv.team = t /\ inv.email = e}

\* C15: there is at most one invitation row per (team, email); an addMember
\* for an email whose invitation is expired or consumed keeps that single row
\* and gives it a new token, the current time as creation timestamp and
\* consumed = false.
OneInvitationRowPerEmail ==
    /\ [](\A t \in TeamIds, e \in Emails : Cardinality(InvitationRows(t, e)) <= 1)
    /\ [][(last'.op = "add_member" /\ last'.out = "ok") =>
            \A old \in InvitationRows(last'.team, last'.email) :
                ~TeamInvitation_is_valid(old, now) =>
                    \E new \in invitations' :
                        /\ {inv \in invitations' : inv.team = old.team /\ inv.email = old.email} = {new}
                        /\ invitations' \ {new} = invitations \ {old}
                        /\ new.token # old.token
                        /\ \A inv \in invitations : inv.token # new.token
                        /\ new.created_at = now'
                        /\ new.is_accepted = FALSE
                        /\ new.invited_by = old.invited_by]_vars

\* a consumed invitation has just been issued again
OneInvitationRowPerEmailWitness ==
    /\ last.op = "add_member" /\ last.out = "ok"
    /\ \E inv \in InvitationRows(last.team, last.email) :
        /\ inv.token[3] > 1
        /\ inv.accepted_at # NoTime
        /\ ~inv.is_accepted
        /\ inv.created_at = now

\* an expired invitation has just been issued again
ExpiredInvitationReissued ==
    /\ last.op = "add_member" /\ last.out = "ok"
    /\ \E inv \in InvitationRows(last.team, last.email) :
        /\ inv.token[3] > 1
        /\ inv.accepted_at = NoTime
        /\ inv.created_at = now /\ now > 0

\* the error a request on team t by u, who is not its organizer, must end in
NonOrganizerError(t, u, memberError) ==
    IF u \in teams[t].members THEN memberError ELSE "NotFound"

NothingChanged == teams' = teams /\ invitations' = invitations
                    /\ participants' = participants

\* C16 as stated: addMember, removeMember and deleteTeam requested by a user
\* who is not the team's organizer always fail with an authorization error
\* and leave members, invitations and participant records unchanged.
NonOrganizerAlwaysUnauthorized ==
    [][last'.op \in {"add_member", "remove_member", "delete_team"} =>
        \A t \in ExistingTeams : \A u \in Users \ {Organizer(t)} :
            /\ \A e \in Emails :
                (AddMember(t, u, e) \/ RemoveMember(t, u, e)) =>
                    last'.out = "AuthenticationFailed" /\ NothingChanged
            /\ DeleteTeam(t, u) =>
                    last'.out = "PermissionDenied" /\ NothingChanged]_vars

\* C16: addMember, removeMember and deleteTeam requested by a user who is not
\* the team's organizer always fail and leave members, invitations and
\* participant records unchanged; the failure is an authorization error when
\* the requester is a member of the team and not-found when the requester is
\* not a member.
NonOrganizerRefused ==
    [][last'.op \in {"add_member", "remove_member", "delete_team"} =>
        \A t \in ExistingTeams : \A u \in Users \ {Organizer(t)} :
            /\ \A e \in Emails :
                (AddMember(t, u, e) \/ RemoveMember(t, u, e)) =>
                    /\ last'.out = NonOrganizerError(t, u, "AuthenticationFailed")
                    /\ NothingChanged
            /\ DeleteTeam(t, u) =>
                    /\ last'.out = NonOrganizerError(t, u, "PermissionDenied")
                    /\ NothingChanged]_vars

\* a member who is not the organizer has just been refused the deletion of a
\* team that has invitations outstanding
NonOrganizerRefusedWitness ==
    /\ last.op = "delete_team" /\ last.out = "PermissionDenied"
    /\ \E t \in ExistingTeams :
        /\ MemberCount(t) >= 2
        /\ InvitationsOf(t) # {}
        /\ \E u \in teams[t].members :
            DeleteTeam_outcome(t, u) = <<"PermissionDenied", "not_organizer">>

ConversationCoversMembers ==
    \A c \in conversations :
        teams[c.team].exists =>
            \A u \in teams[c.team].members :
                \E i \in DOMAIN convParticipants :
                    /\ convParticipants[i].conversation = c.id
                    /\ convParticipants[i].user = u

-----------------------------------------------------------------------------
(* Requests whose steps interleave.  No handler in the repository opens a   *)
(* transaction or locks a row around its reads and writes, so a handler is  *)
(* a sequence of separate database statements, and between two of them the  *)
(* statements of another request can run.  inflight[p] is the request that  *)
(* worker p is serving or has served: its arguments, what it has read, the  *)
(* point it has reached (pc) and, once finished, its outcome.               *)

Procs == {"p", "q"}

NoInvitation ==
    [team |-> 0, email |-> "", invited_by |-> NoUser, token |-> NoToken,
     is_accepted |-> FALSE, created_at |-> NoTime, accepted_at |-> NoTime]

Request(op, pc, user, team, email, code, tok, row, inv, out) ==
    [op |-> op, pc |-> pc, user |-> user, team |-> team, email |-> email,
     code |-> code, tok |-> tok, row |-> row, inv |-> inv, out |-> out]

\* a request refused before it writes anything: only its kind and the error
\* are kept
Rejected(op, out) ==
    Request(op, "done", NoUser, 0, "", NoCode, NoToken, 0, NoInvitation, out)

Idle(p) == p \notin DOMAIN inflight

Serving(p, op, pc) ==
    p \in DOMAIN inflight /\ inflight[p].op = op /\ inflight[p].pc = pc

Begin(p, req) == inflight' = (p :> req) @@ inflight

Return(p, out) == inflight' = [inflight EXCEPT ![p].pc = "done", ![p].out = out]

\* verify_otp up to the point where the row has been fetched and tested:
\* the guard, the query and the expiry test
verify_otp_query(p, u, code) ==
    /\ Idle(p)
    /\ LET res == verify_otp_result(otps, u, code, now)
       IN  Begin(p, IF res = "True"
                    THEN Request("verify_otp", "fetched", u, 0, "", code, NoToken,
                                 OtpFirst(otps, u, code), NoInvitation, res)
                    ELSE Rejected("verify_otp", res))
    /\ UNCHANGED <<now, last, accountVars, teamVars, convVars, joinVars>>

\* otp_obj.is_used = True; otp_obj.save(); return True
verify_otp_save(p) ==
    /\ Serving(p, "verify_otp", "fetched")
    /\ otps' = [otps EXCEPT ![inflight[p].row].is_used = TRUE]
    /\ Return(p, "True")
    /\ last' = Last("verify_otp", inflight[p].user, 0, "", inflight[p].code,
                    NoToken, "True", FALSE)
    /\ UNCHANGED <<now, resetTokens, teamVars, convVars, joinVars>>

\* AcceptTeamInvitationSerializer.validate_token loads the invitation; the
\* tests of validate_token and of TeamInvitation.accept read that instance
validate_token(p, u, tok) ==
    /\ Idle(p)
    /\ LET out == AcceptInvitation_outcome(u, tok)
       IN  Begin(p, IF out = Ok
                    THEN Request("accept_invitation", "loaded", u, tok[1], tok[2],
                                 NoCode, tok, 0,
                                 CHOOSE i \in InvitationByToken(tok) : TRUE, out[1])
                    ELSE Rejected("accept_invitation", out[1]))
    /\ UNCHANGED <<now, last, accountVars, teamVars, convVars, joinVars>>

\* the writes of TeamInvitation.accept: members.add, then save() of the
\* loaded instance, then the participant record
TeamInvitation_accept(p) ==
    /\ Serving(p, "accept_invitation", "loaded")
    /\ LET inv == inflight[p].inv
           u == inflight[p].user
       IN  /\ teams' = [teams EXCEPT ![inv.team].members = @ \cup {u}]
           /\ invitations' =
                {IF r.team = inv.team /\ r.email = inv.email
                 THEN MarkAccepted(inv) ELSE r : r \in invitations}
           /\ participants' = JoinParticipant(participants, u, inv.team)
           /\ last' = Done("accept_invitation", u, inv.team, inv.email, inv.token, FALSE)
    /\ Return(p, "ok")
    /\ UNCHANGED <<now, accountVars, convVars, joinVars, hackathon, nextTeamId>>

\* Tokens of one kind are issued (OTP codes and invitations share no state),
\* then redeemed by two workers at once.
NextRedeem ==
    \/ /\ inflight = <<>> /\ ExistingTeams = {}
       /\ \E u \in OtpUsers : generate_otp(u)
    \/ /\ inflight = <<>> /\ otps = <<>>
       /\ \E u \in Users, name \in TeamNames :
            \E emails \in CreateInputs(u, name) : CreateTeam(u, name, emails)
    \/ \E p \in Procs, u \in OtpUsers, code \in Codes : verify_otp_query(p, u, code)
    \/ \E p \in Procs : verify_otp_save(p)
    \/ \E p \in Procs, u \in Users, tok \in TokenInputs : validate_token(p, u, tok)
    \/ \E p \in Procs : TeamInvitation_accept(p)

SpecRedeem == InitTeam /\ [][NextRedeem]_vars

Finished(p) == p \in DOMAIN inflight /\ inflight[p].pc = "done"

\* C11: of two redemption attempts on the same token whose steps interleave
\* (verify_otp on the same user and code, acceptInvitation on the same
\* token), at most one succeeds.
AtMostOneRedemptionSucceeds ==
    \A p, q \in Procs :
        (p # q /\ Finished(p) /\ Finished(q) /\ inflight[p].op = inflight[q].op) =>
            /\ (inflight[p].op = "verify_otp" /\ inflight[p].row = inflight[q].row) =>
                    ~(inflight[p].out = "True" /\ inflight[q].out = "True")
            /\ (inflight[p].op = "accept_invitation"
                    /\ inflight[p].tok = inflight[q].tok) =>
                    ~(inflight[p].out = "ok" /\ inflight[q].out = "ok")

-----------------------------------------------------------------------------
(* Roster changes whose validation and write interleave *)

\* get_object() and AddMemberSerializer.validate_member_email
AddMember_validate(p, t, u, e) ==
    /\ Idle(p)
    /\ LET out == AddMember_outcome(t, u, e)
       IN  Begin(p, IF out = Ok
                    THEN Request("add_member", "validated", u, t, e, NoCode, NoToken,
                                 0, NoInvitation, out[1])
                    ELSE Rejected("add_member", out[1]))
    /\ UNCHANGED <<now, last, accountVars, teamVars, convVars, joinVars>>

\* AddMemberSerializer.save, on the rows as they are when it runs
AddMember_write(p) ==
    /\ Serving(p, "add_member", "validated")
    /\ invitations' = AddMember_save(inflight[p].team, inflight[p].user, inflight[p].email)
    /\ last' = Done("add_member", inflight[p].user, inflight[p].team,
                    inflight[p].email, NoToken, FALSE)
    /\ Return(p, "ok")
    /\ UNCHANGED <<now, accountVars, convVars, joinVars, hackathon, participants,
                   teams, nextTeamId>>

\* A team is formed, then its organizer's invitations are served by two
\* workers at once.
NextAddRace ==
    \/ /\ inflight = <<>>
       /\ \E u \in Users, name \in TeamNames :
            \E emails \in CreateInputs(u, name) : CreateTeam(u, name, emails)
    \/ \E p \in Procs, t \in TeamIds, u \in Users :
        \E e \in AddMemberInputs(t, u) : AddMember_validate(p, t, u, e)
    \/ \E p \in Procs : AddMember_write(p)

SpecAddRace == InitTeam /\ [][NextAddRace]_vars

\* C19: whatever the interleaving of two concurrent addMember calls for
\* different emails on one team, its members plus its unconsumed invitations
\* never exceed max_team_size.
MembersPlusPendingWithinMax ==
    \A t \in ExistingTeams : MemberCount(t) + PendingCount(t) <= MaxSize

\* get_object() and RemoveMemberSerializer.validate_member_email
RemoveMember_validate(p, t, u, e) ==
    /\ Idle(p)
    /\ LET out == RemoveMember_outcome(t, u, e)
       IN  Begin(p, IF out = Ok
                    THEN Request("remove_member", "validated", u, t, e, NoCode,
                                 NoToken, 0, NoInvitation, out[1])
                    ELSE Rejected("remove_member", out[1]))
    /\ UNCHANGED <<now, last, accountVars, teamVars, convVars, joinVars>>

\* RemoveMemberSerializer.save: team.members.remove(member), then the
\* participant record
RemoveMember_write(p) ==
    /\ Serving(p, "remove_member", "validated")
    /\ LET t == inflight[p].team
           member == UserByEmail(inflight[p].email)
       IN  /\ teams' = [teams EXCEPT ![t].members = @ \ {member}]
           /\ participants' = ResetParticipant(participants, member)
           /\ last' = Done("remove_member", inflight[p].user, t, inflight[p].email,
                           NoToken, FALSE)
    /\ Return(p, "ok")
    /\ UNCHANGED <<now, accountVars, convVars, joinVars, hackathon, nextTeamId,
                   invitations>>

\* get_object() and LeaveTeamSerializer.validate
LeaveTeam_validate(p, t, u) ==
    /\ Idle(p)
    /\ LET out == LeaveTeam_outcome(t, u)
       IN  Begin(p, IF out = Ok
                    THEN Request("leave_team", "validated", u, t, "", NoCode,
                                 NoToken, 0, NoInvitation, out[1])
                    ELSE Rejected("leave_team", out[1]))
    /\ UNCHANGED <<now, last, accountVars, teamVars, convVars, joinVars>>

\* LeaveTeamSerializer.save: team.members.remove(user), then the participant
\* record
LeaveTeam_write(p) ==
    /\ Serving(p, "leave_team", "validated")
    /\ LET t == inflight[p].team
           u == inflight[p].user
       IN  /\ teams' = [teams EXCEPT ![t].members = @ \ {u}]
           /\ participants' = ResetParticipant(participants, u)
           /\ last' = Done("leave_team", u, t, "", NoToken, FALSE)
    /\ Return(p, "ok")
    /\ UNCHANGED <<now, accountVars, convVars, joinVars, hackathon, nextTeamId,
                   invitations>>

\* A team is formed, invited to and joined, then removals and departures are
\* served by two workers at once.
NextRemoveRace ==
    \/ /\ inflight = <<>>
       /\ \E u \in Users, name \in TeamNames :
            \E emails \in CreateInputs(u, name) : CreateTeam(u, name, emails)
    \/ /\ inflight = <<>>
       /\ \E t \in TeamIds, u \in Users :
            \E e \in AddMemberInputs(t, u) : AddMember(t, u, e)
    \/ /\ inflight = <<>>
       /\ \E u \in Users, tok \in TokenInputs : AcceptInvitation(u, tok)
    \/ \E p \in Procs, t \in TeamIds, u \in Users :
        \E e \in RemoveMemberInputs(t, u) : RemoveMember_validate(p, t, u, e)
    \/ \E p \in Procs : RemoveMember_write(p)
    \/ \E p \in Procs, t \in TeamIds, u \in Users : LeaveTeam_validate(p, t, u)
    \/ \E p \in Procs : LeaveTeam_write(p)

SpecRemoveRace == InitTeam /\ [][NextRemoveRace]_vars

\* C20: whatever the interleaving of a removeMember and a leaveTeam, or of two
\* removeMember calls for different members, on one team, a member count that
\* was at least min_team_size does not drop below it.
FloorKeptUnderRace ==
    [][\A t \in ExistingTeams :
        (teams'[t].exists /\ MemberCount(t) >= MinSize) =>
            Cardinality(teams'[t].members) >= MinSize]_vars

-----------------------------------------------------------------------------
(* accounts/utils.py: OTP issue whose two statements interleave *)

\* OTP.objects.filter(user=user, is_used=False).update(is_used=True)
generate_otp_invalidate(p, u) ==
    /\ Idle(p)
    /\ otps' = InvalidateOtps(otps, u)
    /\ Begin(p, Request("generate_otp", "invalidated", u, 0, "", NoCode, NoToken,
                        0, NoInvitation, "-"))
    /\ UNCHANGED <<now, last, resetTokens, teamVars, convVars, joinVars>>

\* code = random digits; OTP.objects.create(user, code, expires_at); return code
generate_otp_create(p) ==
    /\ Serving(p, "generate_otp", "invalidated")
    /\ Len(otps) < MaxOtps
    /\ \E code \in Codes :
        /\ otps' = Append(otps, NewOtp(inflight[p].user, code))
        /\ last' = Last("generate_otp", inflight[p].user, 0, "", code, NoToken,
                        "ok", FALSE)
    /\ Return(p, "ok")
    /\ UNCHANGED <<now, resetTokens, teamVars, convVars, joinVars>>

\* Codes are issued one request at a time, then by two workers at once.
NextIssueRace ==
    \/ inflight = <<>> /\ \E u \in OtpUsers : generate_otp(u)
    \/ \E p \in Procs, u \in OtpUsers : generate_otp_invalidate(p, u)
    \/ \E p \in Procs : generate_otp_create(p)

SpecIssueRace == InitOtp /\ [][NextIssueRace]_vars

IssueInProgress(u) ==
    \E p \in Procs : Serving(p, "generate_otp", "invalidated") /\ inflight[p].user = u

\* C21: whatever the interleaving of two concurrent OTP issue calls for one
\* user, once both have returned the user has at most one OTP with
\* is_used = false.
AtMostOneActiveOtpAfterConcurrentIssue ==
    \A u \in OtpUsers :
        ~IssueInProgress(u) => Cardinality(UnusedOtps(u)) <= 1

-----------------------------------------------------------------------------
\* unconsumed invitations of team t for emails other than e
OtherPendingCount(t, e) ==
    Cardinality({inv \in InvitationsOf(t) : ~inv.is_accepted /\ inv.email # e})

\* C22: an addMember that reaches the capacity test is rejected by it exactly
\* when the member count plus the pending invitations for emails other than
\* the invited one is already >= max_team_size; the invited email's own
\* expired invitation is not counted.
CapacityCountsOtherInvitations ==
    \A t \in ExistingTeams, e \in Emails :
        LET out == AddMember_outcome(t, Organizer(t), e)
        IN  (out = Ok \/ out[2] = "team_full") =>
                (out[2] = "team_full" <=>
                    MemberCount(t) + OtherPendingCount(t, e) >= MaxSize)

\* C23: acceptInvitation by a user whose email differs from the invitation's
\* email fails, does not add the user to the team, leaves the invitation
\* unconsumed and leaves the participant records as they were.
MismatchedAcceptGrantsNothing ==
    [][last'.op = "accept_invitation" =>
        \A inv \in invitations : \A u \in Users :
            (EmailOf[u] # inv.email /\ AcceptInvitation(u, inv.token)) =>
                /\ last'.out # "ok"
                /\ teams' = teams
                /\ invitations' = invitations
                /\ participants' = participants]_vars

\* a valid invitation has just been presented by a user it was not sent to
MismatchedAcceptGrantsNothingWitness ==
    /\ last.op = "accept_invitation" /\ last.out = "ValueError"
    /\ \E inv \in invitations :
        /\ inv.token = last.tok
        /\ TeamInvitation_is_valid(inv, now)
        /\ \A u \in teams[inv.team].members : EmailOf[u] # inv.email

\* C24: createTeam with a name already used by a team of the hackathon fails
\* with ValidationError and changes no team, membership, invitation or
\* participant record.
DuplicateNameIsValidationError ==
    [][last'.op = "create_team" =>
        \A u \in Users, name \in TeamNames :
            (\E t \in ExistingTeams : teams[t].name = name) =>
                \A emails \in InviteLists :
                    CreateTeam(u, name, emails) =>
                        /\ last'.out = "ValidationError"
                        /\ teams' = teams
                        /\ invitations' = invitations
                        /\ participants' = participants]_vars

-----------------------------------------------------------------------------
(* team/serializers.py: team creation whose validation and insert interleave *)

CreateRequest(pc, u, name, emails, out) ==
    [op |-> "create_team", pc |-> pc, user |-> u, name |-> name,
     emails |-> emails, out |-> out]

\* CreateTeamSerializer.validate
CreateTeam_validate(p, u, name, emails) ==
    /\ Idle(p)
    /\ LET out == CreateTeam_outcome(u, name, emails)
       IN  Begin(p, IF out[1] = "ValidationError"
                    THEN CreateRequest("done", NoUser, NoName, <<>>, out[1])
                    ELSE CreateRequest("validated", u, name, emails, "-"))
    /\ UNCHANGED <<now, last, accountVars, teamVars, convVars, joinVars>>

\* the unique_together constraints of Team, as the database tests them when
\* the row is inserted
Team_unique_violated(u, name) ==
    \E t \in ExistingTeams : teams[t].name = name \/ teams[t].organizer = u

\* CreateTeamSerializer.create: Team.objects.create, members.set, the
\* participant record, the invitations
CreateTeam_create(p) ==
    /\ Serving(p, "create_team", "validated")
    /\ LET u == inflight[p].user
           name == inflight[p].name
           ms == MemberEmails(u, inflight[p].emails)
           t == nextTeamId
       IN  IF Team_unique_violated(u, name)
           THEN /\ Return(p, "IntegrityError")
                /\ last' = Refused("create_team", NoToken, "IntegrityError", FALSE)
                /\ UNCHANGED <<teams, nextTeamId, participants, invitations>>
           ELSE /\ nextTeamId <= MaxTeams /\ TokensIssued + Len(ms) <= MaxTokens
                /\ teams' = [teams EXCEPT ![t] =
                        [exists |-> TRUE, name |-> name, organizer |-> u,
                         members |-> InitialMembers(u, ms)]]
                /\ nextTeamId' = nextTeamId + 1
                /\ participants' = JoinParticipant(participants, u, t)
                /\ invitations' = invitations \cup
                        {NewInvitation(t, ms[i], u) : i \in DOMAIN ms}
                /\ last' = Done("create_team", u, t, "", NoToken, FALSE)
                /\ Return(p, "ok")
    /\ UNCHANGED <<now, accountVars, convVars, joinVars, hackathon>>

\* Teams are created by two workers at once.
NextCreateRace ==
    \/ \E p \in Procs, u \in Users, name \in TeamNames :
        \E emails \in CreateInputs(u, name) : CreateTeam_validate(p, u, name, emails)
    \/ \E p \in Procs : CreateTeam_create(p)

SpecCreateRace == InitTeam /\ [][NextCreateRace]_vars

\* C25: when two concurrent createTeam calls pass the application checks
\* with the same organizer or the same name, exactly one team is created and
\* the other call ends in a ConflictError or ValidationError, not in an
\* unhandled storage exception.
CreateRaceEndsInDomainError ==
    /\ \A p \in Procs :
        Finished(p) => inflight[p].out \in {"ok", "ValidationError", "ConflictError"}
    /\ \A t1, t2 \in ExistingTeams :
        (teams[t1].name = teams[t2].name \/ Organizer(t1) = Organizer(t2)) => t1 = t2

-----------------------------------------------------------------------------
(* Delivery of invitations: what the mail backend does with a message is an *)
(* input of the request.                                                    *)

Delivery == {"delivered", "failed"}

\* django.core.mail.send_mail: a failed delivery raises unless fail_silently
send_mail(fail_silently, d) ==
    IF d = "failed" /\ ~fail_silently THEN "SMTPException" ELSE "ok"

\* NotificationService.send_notification: fire-and-forget, a failure is not
\* surfaced to the caller
NotificationService_send_notification(d) == "ok"

\* the delivery branch of CreateTeamSerializer.create for one invited email
CreateTeam_notify(e, d) ==
    IF UserByEmail(e) # NoUser
    THEN NotificationService_send_notification(d)
    ELSE send_mail(TRUE, d)

\* the delivery branch of AddMemberSerializer.save
AddMember_notify(e, d) ==
    IF UserByEmail(e) # NoUser
    THEN NotificationService_send_notification(d)
    ELSE send_mail(FALSE, d)

\* CreateTeamSerializer.create with the mail backend behaving as d for every
\* message, then perform_create's send_mail(fail_silently=True)
CreateTeam_delivering(u, name, emails, d) ==
    LET out == CreateTeam_outcome(u, name, emails)
        ms == MemberEmails(u, emails)
        t == nextTeamId
        raised == {CreateTeam_notify(ms[i], d) : i \in DOMAIN ms}
                    \cup {send_mail(TRUE, d)}
    IN  /\ out = Ok => (nextTeamId <= MaxTeams /\ TokensIssued + Len(ms) <= MaxTokens)
        /\ IF out = Ok
           THEN /\ teams' = [teams EXCEPT ![t] =
                        [exists |-> TRUE, name |-> name, organizer |-> u,
                         members |-> InitialMembers(u, ms)]]
                /\ nextTeamId' = nextTeamId + 1
                /\ participants' = JoinParticipant(participants, u, t)
                /\ invitations' = invitations \cup
                        {NewInvitation(t, ms[i], u) : i \in DOMAIN ms}
           ELSE UNCHANGED <<teams, nextTeamId, participants, invitations>>
        /\ last' = IF out # Ok THEN Refused("create_team", NoToken, out[1], FALSE)
                   ELSE IF raised # {"ok"}
                        THEN Last("create_team", u, t, "", NoCode, NoToken,
                                  "SMTPException", FALSE)
                   ELSE Done("create_team", u, t, "", NoToken, FALSE)
        /\ UNCHANGED <<now, accountVars, convVars, joinVars, raceVars, hackathon>>

\* AddMemberSerializer.save with the mail backend behaving as d: the
\* invitation is written first, the message is sent after
AddMember_delivering(t, u, e, d) ==
    LET out == AddMember_outcome(t, u, e)
    IN  /\ out = Ok => TokensIssued < MaxTokens
        /\ invitations' = IF out = Ok THEN AddMember_save(t, u, e) ELSE invitations
        /\ last' = IF out # Ok THEN Refused("add_member", NoToken, out[1], FALSE)
                   ELSE IF AddMember_notify(e, d) # "ok"
                        THEN Last("add_member", u, t, e, NoCode, NoToken,
                                  AddMember_notify(e, d), FALSE)
                   ELSE Done("add_member", u, t, e, NoToken, FALSE)
        /\ UNCHANGED <<now, accountVars, convVars, joinVars, raceVars, hackathon,
                       participants, teams, nextTeamId>>

\* Teams are created and invitations sent while the mail backend may fail.
NextDelivery ==
    \/ \E u \in Users, name \in TeamNames, d \in Delivery :
        \E emails \in CreateInputs(u, name) : CreateTeam_delivering(u, name, emails, d)
    \/ \E t \in TeamIds, u \in Users, d \in Delivery :
        \E e \in AddMemberInputs(t, u) : AddMember_delivering(t, u, e, d)

SpecDelivery == InitTeam /\ [][NextDelivery]_vars

\* C26: a createTeam or addMember that passes validation while delivery of
\* its messages fails still returns success and leaves its invitations
\* persisted, whether the invitee has an account or not.
DeliveryFailureNeverSurfaces ==
    [][last'.op \in {"create_team", "add_member"} =>
        /\ \A u \in Users, name \in TeamNames, emails \in InviteLists :
            (CreateTeam_outcome(u, name, emails) = Ok
                /\ CreateTeam_delivering(u, name, emails, "failed")) =>
                    /\ last'.out = "ok"
                    /\ \A i \in DOMAIN MemberEmails(u, emails) :
                        \E inv \in invitations' :
                            /\ inv.team = last'.team
                            /\ inv.email = MemberEmails(u, emails)[i]
        /\ \A t \in ExistingTeams, u \in Users, e \in Emails :
            (AddMember_outcome(t, u, e) = Ok
                /\ AddMember_delivering(t, u, e, "failed")) =>
                    /\ last'.out = "ok"
                    /\ \E inv \in invitations' :
                        inv.team = t /\ inv.email = e /\ ~inv.is_accepted]_vars

-----------------------------------------------------------------------------
InvitationExpired(inv) == ~inv.is_accepted /\ now >= inv.created_at + InviteTTL

\* C27: a failed redemption tells its cause: a value no token has, an
\* unconsumed token past its expiry and a consumed token give three different
\* error outcomes; in particular an expired and an already-used token never
\* give the same one.
RedemptionFailureNamesCause ==
    \A u \in Users, used \in invitations, old \in invitations :
        (used.is_accepted /\ InvitationExpired(old)) =>
            /\ AcceptInvitation_outcome(u, used.token)
                    # AcceptInvitation_outcome(u, old.token)
            /\ AcceptInvitation_outcome(u, NoToken)
                    # AcceptInvitation_outcome(u, used.token)
            /\ AcceptInvitation_outcome(u, NoToken)
                    # AcceptInvitation_outcome(u, old.token)

-----------------------------------------------------------------------------
\* the user a successful removeMember or leaveTeam took out of the team
RemovedUser(l) ==
    IF l.op = "remove_member" THEN UserByEmail(l.email) ELSE l.user

\* C28: a successful removeMember or leaveTeam takes the target user out of
\* the team's member set and sets their participant record to team = null,
\* looking_for_team = true; no other member, team or participant record is
\* changed.
RemovalEffect ==
    [][(last'.op \in {"remove_member", "leave_team"} /\ last'.out = "ok") =>
        LET t == last'.team
            target == RemovedUser(last')
        IN  /\ target \in teams[t].members
            /\ teams' = [teams EXCEPT ![t].members = @ \ {target}]
            /\ participants[target].registered =>
                /\ participants'[target].team = 0
                /\ participants'[target].looking_for_team = TRUE
                /\ participants'[target].registered
            /\ ~participants[target].registered =>
                participants'[target] = participants[target]
            /\ \A v \in Users \ {target} : participants'[v] = participants[v]
            /\ invitations' = invitations]_vars

\* a registered member has just been taken out of a team that keeps other
\* members
RemovalEffectWitness ==
    /\ last.op \in {"remove_member", "leave_team"} /\ last.out = "ok"
    /\ participants[RemovedUser(last)].registered
    /\ participants[RemovedUser(last)].team = 0
    /\ participants[RemovedUser(last)].looking_for_team
    /\ RemovedUser(last) \notin teams[last.team].members
    /\ \E v \in teams[last.team].members : participants[v].team = last.team

-----------------------------------------------------------------------------
\* C29: after a successful deleteTeam by the organizer the team and all its
\* invitations no longer exist, every user who was a member and has a
\* participant record has team = null and looking_for_team = true in it, and
\* no participant record still references the deleted team.
DeletedTeamLeavesNothing ==
    [][(last'.op = "delete_team" /\ last'.out = "ok") =>
        LET t == last'.team
        IN  /\ teams[t].exists /\ teams[t].organizer = last'.user
            /\ ~teams'[t].exists
            /\ \A inv \in invitations' : inv.team # t
            /\ \A u \in teams[t].members : participants[u].registered =>
                /\ participants'[u].registered
                /\ participants'[u].team = 0
                /\ participants'[u].looking_for_team = TRUE
            /\ \A u \in Users : participants'[u].team # t]_vars

\* an organizer has just deleted their team and their participant record is
\* reset, while another team and its organizer's record are still there
DeletedTeamLeavesNothingWitness ==
    /\ last.op = "delete_team" /\ last.out = "ok"
    /\ ~teams[last.team].exists
    /\ participants[last.user].registered
    /\ participants[last.user].team = 0
    /\ participants[last.user].looking_for_team
    /\ \E t \in TeamIds \ {last.team} :
        /\ teams[t].exists
        /\ participants[teams[t].organizer].team = t

-----------------------------------------------------------------------------
\* the three reasons the spec gives for rejecting a join request
JoinRequestBarred(u, t) ==
    \/ u \in teams[t].members
    \/ \E t2 \in TeamIds : teams[t2].exists /\ u \in teams[t2].members
    \/ \E r \in joinRequests : r.team = t /\ r.user = u

\* C30: a join request of user u for an existing team t is rejected exactly
\* when u is already a member of t, or a member of some team of the
\* hackathon, or a TeamJoinRequest for (t, u) already exists in any status;
\* otherwise it creates exactly one pending request and nothing else.
JoinRequestRejectedExactlyWhenBarred ==
    [][\A u \in Users, t \in TeamIds :
        (last'.op = "request_to_join" /\ teams[t].exists /\ request_to_join(u, t)) =>
            /\ JoinRequestBarred(u, t) <=> last'.out = "BadRequest"
            /\ JoinRequestBarred(u, t) => joinRequests' = joinRequests
            /\ ~JoinRequestBarred(u, t) =>
                /\ last'.out = "ok"
                /\ \E r \in joinRequests' \ joinRequests :
                    /\ r.team = t /\ r.user = u /\ r.status = "pending"
                    /\ joinRequests' = joinRequests \cup {r}
                /\ Cardinality(joinRequests') = Cardinality(joinRequests) + 1]_vars

\* a user outside every team has just sent the one request for the team
JoinRequestRejectedExactlyWhenBarredWitness ==
    /\ last.op = "request_to_join" /\ last.out = "ok"
    /\ teams[last.team].exists
    /\ Cardinality({r \in joinRequests :
                        r.team = last.team /\ r.user = last.user}) = 1
    /\ \A r \in joinRequests :
        (r.team = last.team /\ r.user = last.user) => r.status = "pending"
    /\ \A t \in TeamIds : last.user \notin teams[t].members

-----------------------------------------------------------------------------
\* C31: approve called by the team's organizer while the team has a pending
\* request (of the named user, when one is named) sets the oldest such request
\* to approved and adds its user to the team's members; called by anyone else
\* it changes nothing.
OrganizerApprovesOldestPending ==
    [][\A u \in Users, t \in TeamIds, target \in Users \cup {NoUser} :
        (/\ last'.op = "approve_join_request"
         /\ teams[t].exists
         /\ approve_join_request(u, t, target)) =>
            IF teams[t].organizer = u /\ PendingRequests(t, target) # {}
            THEN LET r == FirstRequest(PendingRequests(t, target))
                 IN  /\ joinRequests' = (joinRequests \ {r})
                            \cup {[r EXCEPT !.status = "approved"]}
                     /\ teams' = [teams EXCEPT ![t].members = @ \cup {r.user}]
            ELSE teams[t].organizer # u =>
                    UNCHANGED <<teams, joinRequests, participants, invitations>>]_vars

-----------------------------------------------------------------------------
RejectedRequest(t, u) ==
    \E r \in joinRequests : r.team = t /\ r.user = u /\ r.status = "rejected"

\* C32: once a join request for (team, user) has been rejected, the record
\* stays with status rejected, and no later request, approve or reject call
\* yields a pending or approved request for that pair while the team exists.
RejectedRequestIsFinal ==
    [][\A t \in TeamIds, u \in Users :
        (RejectedRequest(t, u) /\ teams'[t].exists) =>
            \A r \in joinRequests' :
                (r.team = t /\ r.user = u) => r.status = "rejected"]_vars

\* no join request has status rejected
NoRejectedRequest ==
    \A r \in joinRequests : r.status # "rejected"

-----------------------------------------------------------------------------
\* (min_team_size, max_team_size) of hackathons whose teams fill up with the
\* accounts at hand, so that a join request can meet a full team
FullSizeConfigs == {<<1, 1>>, <<2, 2>>}

InitApprove ==
    /\ now = 0
    /\ otps = <<>>
    /\ resetTokens = <<>>
    /\ last = NoLast
    /\ \E c \in FullSizeConfigs :
        hackathon = [min_team_size |-> c[1], max_team_size |-> c[2]]
    /\ participants = [u \in Users |->
            [registered |-> u \in Registered, team |-> 0,
             looking_for_team |-> u \in Registered]]
    /\ teams = [t \in TeamIds |-> NoTeam]
    /\ nextTeamId = 1
    /\ invitations = {}
    /\ NoConvState

SpecApprove == InitApprove /\ [][NextJoin]_vars

-----------------------------------------------------------------------------
-----------------------------------------------------------------------------
\* C34: after syncTeamConversation(team) every current member of the team and
\* its organizer is a participant of the team's conversation, and a
\* participant of it has is_admin = true iff that user is the team's organizer.
SyncCoversMembersAndMarksOrganizer ==
    [][(last'.op = "sync_team_conversation" /\ last'.out = "ok") =>
        LET t == last'.team
            rows == {convParticipants'[i] : i \in DOMAIN convParticipants'}
        IN  \E c \in conversations' :
                /\ c.team = t
                /\ \A u \in teams'[t].members \cup {teams'[t].organizer} :
                        \E r \in rows : r.conversation = c.id /\ r.user = u
                /\ \A r \in rows : r.conversation = c.id =>
                        (r.is_admin <=> r.user = teams'[t].organizer)]_vars

\* a team conversation has just been synchronised that holds the organizer as
\* admin, a current member and a participant who is no longer a member
SyncCoversMembersAndMarksOrganizerWitness ==
    /\ last.op = "sync_team_conversation" /\ last.out = "ok"
    /\ \E c \in conversations :
        /\ c.team = last.team
        /\ \E r \in ParticipantsOf(c.id) :
                r.user = teams[last.team].organizer /\ r.is_admin
        /\ \E r \in ParticipantsOf(c.id) :
                r.user \in teams[last.team].members /\ ~r.is_admin
        /\ \E r \in ParticipantsOf(c.id) : r.user \notin teams[last.team].members

-----------------------------------------------------------------------------
(* communications/views.py: the judges conversation of the hackathon *)

\* the judges of the hackathon, the organizer of its organization (NoUser
\* when it has none) and the organization's moderators
Panels ==
    [judges : SUBSET Users, organizer : Users \cup {NoUser},
     moderators : SUBSET Users]

\* hackathon.judges.add(user) and hackathon.judges.remove(user)
AssignJudge(u) ==
    /\ u \notin panel.judges
    /\ panel' = [panel EXCEPT !.judges = @ \cup {u}]
    /\ last' = Last("assign_judge", NoUser, 0, "", NoCode, NoToken, "-", FALSE)
    /\ UNCHANGED <<now, accountVars, teamVars, conversations, convParticipants,
                   joinVars, raceVars>>

RevokeJudge(u) ==
    /\ u \in panel.judges
    /\ panel' = [panel EXCEPT !.judges = @ \ {u}]
    /\ last' = Last("revoke_judge", NoUser, 0, "", NoCode, NoToken, "-", FALSE)
    /\ UNCHANGED <<now, accountVars, teamVars, conversations, convParticipants,
                   joinVars, raceVars>>

create_judges_conversation_outcome_AnyUser(u) == Ok

\* is_judge or is_organizer
create_judges_conversation_outcome(u) ==
    LET is_judge == u \in panel.judges
        is_organizer == panel.organizer = u \/ u \in panel.moderators
    IN  IF ~(is_judge \/ is_organizer)
        THEN <<"PermissionDenied", "not_authorized">>
        ELSE Ok

\* Conversation.objects.get_or_create(type='judges', hackathon=hackathon,
\*     defaults=...); a judges conversation has no team
JudgesConversations == {c \in conversations : c.team = 0}

GetOrCreateJudgesConversation(u) ==
    IF JudgesConversations = {}
    THEN [id |-> Cardinality(conversations) + 1, team |-> 0, created_by |-> u]
    ELSE CHOOSE c \in JudgesConversations : TRUE

\* the ids collected in the set participants
JudgesParticipants(include_organizers, include_org_members) ==
    panel.judges
        \cup (IF include_organizers /\ panel.organizer # NoUser
              THEN {panel.organizer} ELSE {})
        \cup (IF include_org_members THEN panel.moderators ELSE {})

\* the rows handed to bulk_create
JudgesRows(conv, S) ==
    LET us == SelectSeq(UserOrder, LAMBDA u : u \in S)
    IN  [i \in DOMAIN us |->
            [conversation |-> conv.id, user |-> us[i],
             is_admin |-> us[i] = panel.organizer]]

create_judges_conversation_Reconciles(u, include_organizers, include_org_members) ==
    LET out == create_judges_conversation_outcome(u)
        conv == GetOrCreateJudgesConversation(u)
        S == JudgesParticipants(include_organizers, include_org_members)
        kept == SelectSeq(convParticipants,
                          LAMBDA r : r.conversation # conv.id \/ r.user \in S)
    IN  /\ IF out = Ok
           THEN /\ conversations' = conversations \cup {conv}
                /\ convParticipants' =
                        bulk_create_ignore_conflicts(kept, JudgesRows(conv, S))
                /\ UNCHANGED panel
           ELSE UNCHANGED convVars
        /\ last' = IF out = Ok
                   THEN Done("sync_judges_conversation", u, 0, "", NoToken, FALSE)
                   ELSE Refused("sync_judges_conversation", NoToken, out[1], FALSE)
        /\ UNCHANGED <<now, accountVars, teamVars, joinVars, raceVars>>

create_judges_conversation(u, include_organizers, include_org_members) ==
    LET out == create_judges_conversation_outcome(u)
        conv == GetOrCreateJudgesConversation(u)
    IN  /\ IF out = Ok
           THEN /\ conversations' = conversations \cup {conv}
                /\ convParticipants' =
                        bulk_create_ignore_conflicts(convParticipants,
                            JudgesRows(conv,
                                JudgesParticipants(include_organizers,
                                                   include_org_members)))
                /\ UNCHANGED panel
           ELSE UNCHANGED convVars
        /\ last' = IF out = Ok
                   THEN Done("sync_judges_conversation", u, 0, "", NoToken, FALSE)
                   ELSE Refused("sync_judges_conversation", NoToken, out[1], FALSE)
        /\ UNCHANGED <<now, accountVars, teamVars, joinVars, raceVars>>

InitJudges ==
    /\ now = 0
    /\ otps = <<>>
    /\ resetTokens = <<>>
    /\ last = NoLast
    /\ NoTeamState
    /\ conversations = {} /\ convParticipants = <<>>
    /\ joinRequests = {}
    /\ inflight = <<>>
    /\ panel \in Panels

\* Judges are assigned and revoked while the judges conversation is
\* synchronised.
NextJudges ==
    \/ \E u \in Users : AssignJudge(u)
    \/ \E u \in Users : RevokeJudge(u)
    \/ \E u \in Users, include_organizers, include_org_members \in BOOLEAN :
        create_judges_conversation(u, include_organizers, include_org_members)

SpecJudges == InitJudges /\ [][NextJudges]_vars

-----------------------------------------------------------------------------
\* Team and judges conversations side by side: members join, are removed and
\* leave, judges are assigned and revoked, and both conversations are
\* synchronised again and again.
\* the users that are made judges of the hackathon
JudgeCandidates == {"C"}

\* the users that create a team
SyncCreators == {"A"}

\* the e-mail addresses that are invited
SyncInvitees == {"b@x.com"}

InitSync ==
    /\ now = 0
    /\ otps = <<>>
    /\ resetTokens = <<>>
    /\ last = NoLast
    /\ \E c \in InviteSizeConfigs :
        hackathon = [min_team_size |-> c[1], max_team_size |-> c[2]]
    /\ participants = [u \in Users |->
            [registered |-> u \in Registered, team |-> 0,
             looking_for_team |-> u \in Registered]]
    /\ teams = [t \in TeamIds |-> NoTeam]
    /\ nextTeamId = 1
    /\ invitations = {}
    /\ conversations = {} /\ convParticipants = <<>>
    /\ joinRequests = {}
    /\ inflight = <<>>
    /\ panel = [judges |-> {}, organizer |-> "A", moderators |-> {}]

NextSync ==
    \/ \E u \in SyncCreators, name \in TeamNames : CreateTeam(u, name, <<>>)
    \/ \E t \in TeamIds, e \in SyncInvitees :
        teams[t].exists /\ AddMember(t, teams[t].organizer, e)
    \/ \E u \in Users, tok \in TokenInputs \ {NoToken} : AcceptInvitation(u, tok)
    \/ \E t \in TeamIds, u \in Users :
        \E e \in RemoveMemberInputs(t, u) : RemoveMember(t, u, e)
    \/ \E t \in TeamIds : \E u \in teams[t].members : LeaveTeam(t, u)
    \/ \E u \in Users, t \in TeamIds : create_team_conversation(u, t)
    \/ \E u \in JudgeCandidates : AssignJudge(u)
    \/ \E u \in JudgeCandidates : RevokeJudge(u)
    \/ \E u \in Users, include_organizers, include_org_members \in BOOLEAN :
        create_judges_conversation(u, include_organizers, include_org_members)

SpecSync == InitSync /\ [][NextSync]_vars

-----------------------------------------------------------------------------
\* C35: no step deletes a ConversationParticipant: whoever is a participant
\* of a team or judges conversation is still one, with the same row, after
\* any later removeMember, leaveTeam, judge revocation or re-sync, so the
\* participant rows only grow.
ParticipantsOnlyGrow ==
    [][/\ conversations \subseteq conversations'
       /\ \A i \in DOMAIN convParticipants :
            /\ i \in DOMAIN convParticipants'
            /\ convParticipants'[i] = convParticipants[i]]_vars

\* after a re-sync of the judges conversation it still holds a user who is
\* no longer a judge, and a team conversation holds a user who is no longer a
\* member of the team
ParticipantsOnlyGrowWitness ==
    /\ last.op = "sync_judges_conversation" /\ last.out = "ok"
    /\ \E c \in JudgesConversations : \E r \in ParticipantsOf(c.id) :
        /\ r.user \notin panel.judges \cup {panel.organizer} \cup panel.moderators
    /\ \E c \in conversations : \E r \in ParticipantsOf(c.id) :
        /\ c.team # 0
        /\ teams[c.team].exists
        /\ r.user \notin teams[c.team].members

-----------------------------------------------------------------------------
\* C36: syncJudgesConversation called by a user who is neither a judge of the
\* hackathon, nor the organization's organizer, nor one of its moderators is
\* refused, creates no conversation and inserts no participant.
OutsiderCannotSyncJudges ==
    [][\A u \in Users, include_organizers, include_org_members \in BOOLEAN :
        (/\ last'.op = "sync_judges_conversation"
         /\ u \notin panel.judges \cup {panel.organizer} \cup panel.moderators
         /\ create_judges_conversation(u, include_organizers, include_org_members)) =>
            /\ last'.out = "PermissionDenied"
            /\ UNCHANGED <<conversations, convParticipants>>]_vars

\* a sync of the judges conversation has just been refused while the
\* hackathon has judges and no judges conversation exists
OutsiderCannotSyncJudgesWitness ==
    /\ last.op = "sync_judges_conversation" /\ last.out = "PermissionDenied"
    /\ panel.judges # {}
    /\ JudgesConversations = {}
    /\ convParticipants = <<>>

-----------------------------------------------------------------------------
\* C37: every user who successfully triggers syncTeamConversation or
\* syncJudgesConversation is a participant of the conversation returned to
\* them, whatever the includeOrganizers / includeOrgMembers flags.
CallerIsParticipant ==
    (last.op \in {"sync_team_conversation", "sync_judges_conversation"}
            /\ last.out = "ok") =>
        \E c \in conversations :
            /\ c.team = last.team
            /\ \E r \in ParticipantsOf(c.id) : r.user = last.user

-----------------------------------------------------------------------------
\* C38: in every reachable state a TeamInvitation has accepted_at set iff
\* is_accepted = true, also after addMember re-issues an invitation that was
\* accepted before.
AcceptedAtIffAccepted ==
    \A inv \in invitations : inv.is_accepted <=> inv.accepted_at # NoTime

-----------------------------------------------------------------------------
\* C39: createTeamWithInvitations never creates an invitation addressed to
\* the creator's own email, whatever the invite list holds (the creator's
\* email listed more than once included), and the creator's email never
\* counts towards the validated team size beyond the creator's own slot.
NoInvitationToCreator ==
    [][(last'.op = "create_team" /\ last'.out = "ok") =>
        /\ \A inv \in invitations' \ invitations : inv.email # EmailOf[last'.user]
        /\ Cardinality(invitations' \ invitations) + 1 <= hackathon.max_team_size]_vars

-----------------------------------------------------------------------------
\* Teams of a hackathon whose maximum is within reach of the accounts at hand
\* form, invite, accept, shrink and invite again, one request at a time.
SpecCapacity == InitApprove /\ [][NextTeam]_vars

UnconsumedInvitations(t) == {inv \in invitations : inv.team = t /\ ~inv.is_accepted}

====
